---- MODULE Spec2Model ----
(***************************************************************************)
(* A model of the credential module (hashPassword / verifyPassword in its  *)
(* four revisions) and of the Convex weather tables of the repository.     *)
(*                                                                         *)
(* Strings are sequences of one-character strings, byte arrays are         *)
(* sequences of numbers in 0..255.                                         *)
(***************************************************************************)
EXTENDS Integers, Sequences, FiniteSets, Bags, TLC

(***************************************************************************)
(* Strings, bytes and the JavaScript library functions the code calls.     *)
(***************************************************************************)

\* The ASCII digits and letters in code-point order.
AsciiDigits == << "0", "1", "2", "3", "4", "5", "6", "7", "8", "9" >>

AsciiUpper ==
  << "A", "B", "C", "D", "E", "F", "G", "H", "I", "J", "K", "L", "M",
     "N", "O", "P", "Q", "R", "S", "T", "U", "V", "W", "X", "Y", "Z" >>

AsciiLower ==
  << "a", "b", "c", "d", "e", "f", "g", "h", "i", "j", "k", "l", "m",
     "n", "o", "p", "q", "r", "s", "t", "u", "v", "w", "x", "y", "z" >>

\* The index of c in the sequence s, 0 when it is not there.
IndexOf(s, c) ==
  IF \E i \in 1..Len(s) : s[i] = c
    THEN CHOOSE i \in 1..Len(s) : s[i] = c
    ELSE 0

\* String.prototype.charCodeAt for the ASCII characters the model uses.
CharCode(c) ==
  CASE IndexOf(AsciiDigits, c) > 0 -> 47 + IndexOf(AsciiDigits, c)
    [] IndexOf(AsciiUpper, c) > 0 -> 64 + IndexOf(AsciiUpper, c)
    [] IndexOf(AsciiLower, c) > 0 -> 96 + IndexOf(AsciiLower, c)
    [] c = " " -> 32
    [] c = "$" -> 36
    [] c = "+" -> 43
    [] c = "-" -> 45
    [] c = ":" -> 58

\* TextEncoder.encode: UTF-8, one byte per ASCII character.
TextEncode(s) == [i \in 1..Len(s) |-> CharCode(s[i])]

HexDigits ==
  << "0", "1", "2", "3", "4", "5", "6", "7",
     "8", "9", "a", "b", "c", "d", "e", "f" >>

UpperHexDigits == << "A", "B", "C", "D", "E", "F" >>

\* The concatenation of a sequence of strings: Array.prototype.join('').
RECURSIVE Join(_)
Join(parts) ==
  IF parts = << >> THEN << >> ELSE Head(parts) \o Join(Tail(parts))

\* b.toString(16).padStart(2, '0') for a byte b.
ByteToHex(b) == << HexDigits[(b \div 16) + 1], HexDigits[(b % 16) + 1] >>

\* bufferToHex with the padStart(2, '0') forgotten.
bufferToHexNoPad(bytes) ==
  Join([i \in 1..Len(bytes) |->
          IF bytes[i] < 16 THEN << HexDigits[bytes[i] + 1] >>
          ELSE ByteToHex(bytes[i])])

\* bufferToHex, and the inline Array.from(..).map(..).join('') of auth.ts:
\* the two hex digits of every byte, in order.
bufferToHex(bytes) ==
  [i \in 1..(2 * Len(bytes)) |-> ByteToHex(bytes[(i + 1) \div 2])[2 - (i % 2)]]

\* The value of a digit character in radix 16, or -1 when it is no digit.
DigitValue(c) ==
  IF \E i \in 1..16 : HexDigits[i] = c
    THEN (CHOOSE i \in 1..16 : HexDigits[i] = c) - 1
    ELSE IF \E i \in 1..6 : UpperHexDigits[i] = c
      THEN (CHOOSE i \in 1..6 : UpperHexDigits[i] = c) + 9
      ELSE -1

IsDigit(c, radix) == DigitValue(c) >= 0 /\ DigitValue(c) < radix

\* The number written by the longest prefix of s made of radix digits;
\* acc is the value read so far and n the count of digits read.
RECURSIVE ParseDigits(_, _, _, _)
ParseDigits(s, radix, acc, n) ==
  IF s # << >> /\ IsDigit(Head(s), radix)
    THEN ParseDigits(Tail(s), radix, acc * radix + DigitValue(Head(s)), n + 1)
    ELSE [nan |-> n = 0, val |-> acc]

RECURSIVE TrimLeft(_)
TrimLeft(s) ==
  IF s # << >> /\ Head(s) = " " THEN TrimLeft(Tail(s)) ELSE s

\* parseInt(s, radix) of ECMAScript: leading white space is skipped, a sign
\* is read, with radix 16 a 0x prefix is dropped, then the longest prefix of
\* digits is read; NaN when there is none.
parseInt(s, radix) ==
  LET t == TrimLeft(s)
      neg == t # << >> /\ Head(t) = "-"
      u == IF t # << >> /\ Head(t) \in {"-", "+"} THEN Tail(t) ELSE t
      w == IF radix = 16 /\ Len(u) >= 2 /\ u[1] = "0" /\ u[2] \in {"x", "X"}
             THEN SubSeq(u, 3, Len(u)) ELSE u
      r == ParseDigits(w, radix, 0, 0)
  IN  [nan |-> r.nan, val |-> IF neg THEN 0 - r.val ELSE r.val]

\* The conversion of a number stored into a Uint8Array: NaN becomes 0,
\* everything else is taken modulo 256.
ToUint8(r) == IF r.nan THEN 0 ELSE r.val % 256

\* String.prototype.split(d) for a one-character separator d.
RECURSIVE Split(_, _)
Split(s, d) ==
  IF \E i \in 1..Len(s) : s[i] = d
    THEN LET k == CHOOSE i \in 1..Len(s) :
                    s[i] = d /\ \A j \in 1..(i - 1) : s[j] # d
         IN  << SubSeq(s, 1, k - 1) >> \o Split(SubSeq(s, k + 1, Len(s)), d)
    ELSE << s >>

\* String.prototype.match(/.{2}/g): the consecutive two-character pieces of
\* s, a trailing odd character dropped; null (here the flag isNull) when s
\* has fewer than two characters.
MatchPairs(s) ==
  [isNull |-> Len(s) < 2,
   pairs |-> [k \in 1..(Len(s) \div 2) |-> SubSeq(s, 2 * k - 1, 2 * k)]]

\* new Uint8Array(pairs.map(byte => parseInt(byte, 16))).
PairsToBytes(pairs) ==
  [k \in 1..Len(pairs) |-> ToUint8(parseInt(pairs[k], 16))]

\* hexToBuffer: new Uint8Array(hex.length / 2) truncates a fractional length
\* (ToIndex), the loop stores parseInt of each two-character substring and
\* a store past the end of the array is dropped.
hexToBuffer(hex) ==
  [k \in 1..(Len(hex) \div 2) |->
     ToUint8(parseInt(SubSeq(hex, 2 * k - 1, 2 * k), 16))]

\* Buffer.from(key, "hex") of Node: two characters per byte, decoding
\* stops at the first pair that is not two hex digits.
BufferFromHex(hex) ==
  LET valid(k) == IsDigit(hex[2 * k - 1], 16) /\ IsDigit(hex[2 * k], 16)
      n == CHOOSE k \in 0..(Len(hex) \div 2) :
             /\ \A j \in 1..k : valid(j)
             /\ k < Len(hex) \div 2 => ~valid(k + 1)
  IN  [k \in 1..n |->
         DigitValue(hex[2 * k - 1]) * 16 + DigitValue(hex[2 * k])]

\* Bitwise operators on bytes (the ^ and | of the comparison loop), bit by
\* bit: w runs over the weights 1, 2, .. 128 of the eight bits.
BitWeights == {1, 2, 4, 8, 16, 32, 64, 128}

BitOf(a, w) == (a \div w) % 2

RECURSIVE SumOf(_)
SumOf(S) ==
  IF S = {} THEN 0
  ELSE LET x == CHOOSE y \in S : TRUE IN x + SumOf(S \ {x})

BitXor(a, b) ==
  SumOf({ w \in BitWeights : BitOf(a, w) # BitOf(b, w) })

BitOr(a, b) ==
  SumOf({ w \in BitWeights : BitOf(a, w) = 1 \/ BitOf(b, w) = 1 })

(***************************************************************************)
(* The platform's key derivation.  PBKDF2 and scrypt are idealised as a    *)
(* function that is injective in (algorithm, password, cost, salt): the    *)
(* key material is the length-prefixed inputs, folded into len bytes       *)
(* (nothing is folded while the material fits into len bytes, which it     *)
(* does for every password and salt of the model).                         *)
(***************************************************************************)

RECURSIVE FoldAt(_, _, _)
FoldAt(material, i, len) ==
  IF i > Len(material) THEN 0
  ELSE material[i] + FoldAt(material, i + len, len)

KeyMaterial(alg, pw, salt, cost) ==
  << alg, Len(pw) >> \o pw
    \o << cost % 256, (cost \div 256) % 256, (cost \div 65536) % 256,
          Len(salt) >>
    \o salt

DeriveKey(alg, pw, salt, cost, len) ==
  [i \in 1..len |-> FoldAt(KeyMaterial(alg, pw, salt, cost), i, len) % 256]

\* crypto.subtle.deriveBits({name: 'PBKDF2', salt, iterations,
\* hash: 'SHA-256'}, key, bits): rejects when iterations is NaN or is not
\* positive; iterations is a parseInt result.
deriveBits(pwBytes, salt, iterations, bits) ==
  IF iterations.nan \/ iterations.val < 1
    THEN [threw |-> TRUE, bits |-> << >>]
    ELSE [threw |-> FALSE,
          bits |-> DeriveKey(1, pwBytes, salt, iterations.val, bits \div 8)]

\* scrypt(password, salt, keylen, {N: 1024}, callback) of node:crypto, the
\* password and the salt given as strings.
scrypt(password, salt, keylen) ==
  DeriveKey(2, TextEncode(password), TextEncode(salt), 1024, keylen)

Num(n) == [nan |-> FALSE, val |-> n]

(***************************************************************************)
(* hashPassword and verifyPassword.  The repository holds four revisions:  *)
(*   "pbkdf2_100"    src/auth.ts 14-78: PBKDF2, 100 iterations, salt:key   *)
(*   "pbkdf2_1000"   src/auth.ts 148-227: PBKDF2, 1000 iterations, salt:key*)
(*   "pbkdf2_tagged" PBKDF2$25000$salt$hash, iterations read back          *)
(*   "scrypt"        node:crypto scrypt, N = 1024, salt:key                *)
(* A verification returns [ret, threw, exit, steps]: the boolean the       *)
(* promise resolves to, whether the promise rejected instead, the return   *)
(* statement taken, and the number of byte positions the comparison        *)
(* visited.                                                                *)
(***************************************************************************)

PBKDF2_ITERATIONS == 25000
PBKDF2_SALT_LENGTH == 16
PBKDF2_HASH_LENGTH == 32
PBKDF2_ALGORITHM == << "P", "B", "K", "D", "F", "2" >>

\* The decimal digits of n: the template literal's ${PBKDF2_ITERATIONS}.
RECURSIVE NumberToString(_)
NumberToString(n) ==
  IF n < 10 THEN << AsciiDigits[n + 1] >>
  ELSE NumberToString(n \div 10) \o << AsciiDigits[(n % 10) + 1] >>

\* The comparison loop with = written for |=: only the last byte counts.
RECURSIVE CompareLoopAssign(_, _, _)
CompareLoopAssign(derivedKey, expectedKey, result) ==
  IF result.steps < Len(derivedKey)
    THEN CompareLoopAssign(derivedKey, expectedKey,
           [value |-> BitXor(derivedKey[result.steps + 1],
                             expectedKey[result.steps + 1]),
            steps |-> result.steps + 1])
    ELSE result

\* The comparison loop leaving at the first byte that differs.
RECURSIVE CompareLoopEarlyExit(_, _, _)
CompareLoopEarlyExit(derivedKey, expectedKey, result) ==
  IF result.steps < Len(derivedKey)
    THEN IF derivedKey[result.steps + 1] # expectedKey[result.steps + 1]
           THEN [value |-> 1, steps |-> result.steps + 1]
           ELSE CompareLoopEarlyExit(derivedKey, expectedKey,
                  [value |-> 0, steps |-> result.steps + 1])
    ELSE result

\* The for loop of the comparison: result |= derivedKey[i] ^ expectedKey[i]
\* for every i below derivedKey.length.  result.value is the variable
\* result, result.steps the loop index i.
RECURSIVE CompareLoop(_, _, _)
CompareLoop(derivedKey, expectedKey, result) ==
  IF result.steps < Len(derivedKey)
    THEN CompareLoop(derivedKey, expectedKey,
           [value |-> BitOr(result.value,
                            BitXor(derivedKey[result.steps + 1],
                                   expectedKey[result.steps + 1])),
            steps |-> result.steps + 1])
    ELSE result

\* crypto.subtle.timingSafeEqual and node:crypto timingSafeEqual on two
\* buffers of equal length: every byte position is visited.
timingSafeEqual(a, b) == [equal |-> a = b, steps |-> Len(a)]

\* verifyPassword without its try block: an exception rejects the promise.
TryRethrow(r) ==
  [ret |-> r.ret, threw |-> r.exit = "throw", exit |-> r.exit,
   steps |-> r.steps]

\* The try { .. } catch { return false } around the body of verifyPassword.
TryCatch(r) ==
  IF r.exit = "throw"
    THEN [ret |-> FALSE, threw |-> FALSE, exit |-> "catch", steps |-> r.steps]
    ELSE [ret |-> r.ret, threw |-> FALSE, exit |-> r.exit, steps |-> r.steps]

\* hashPassword with the salt never filled by the random source.
hashPasswordZeroSalt(password, salt, iterations) ==
  LET zero == [i \in 1..Len(salt) |-> 0]
      derivedBits ==
        deriveBits(TextEncode(password), zero, Num(iterations), 256).bits
  IN  bufferToHex(zero) \o << ":" >> \o bufferToHex(derivedBits)

\* hashPassword of src/auth.ts, the iteration count being the literal of
\* the revision; salt is what crypto.getRandomValues returned.
hashPasswordColon(password, salt, iterations) ==
  LET derivedBits ==
        deriveBits(TextEncode(password), salt, Num(iterations), 256).bits
      saltHex == bufferToHex(salt)
      keyHex == bufferToHex(derivedBits)
  IN  saltHex \o << ":" >> \o keyHex

hashPassword_100(password, salt) == hashPasswordColon(password, salt, 100)

hashPassword_1000(password, salt) == hashPasswordColon(password, salt, 1000)

\* The body of verifyPassword of src/auth.ts inside its try block.
verifyColonBody(hashedPassword, password, iterations) ==
  LET parts == Split(hashedPassword, ":")
      saltHex == parts[1]
      keyHex == IF Len(parts) >= 2 THEN parts[2] ELSE << >>
      saltMatch == MatchPairs(saltHex)
      keyMatch == MatchPairs(keyHex)
      salt == PairsToBytes(saltMatch.pairs)
      expectedKey == PairsToBytes(keyMatch.pairs)
      derived == deriveBits(TextEncode(password), salt, Num(iterations), 256)
      derivedKey == derived.bits
      loop == CompareLoop(derivedKey, expectedKey, [value |-> 0, steps |-> 0])
  IN  IF saltHex = << >> \/ keyHex = << >>
        THEN [ret |-> FALSE, exit |-> "format", steps |-> 0]
      ELSE IF saltMatch.isNull \/ keyMatch.isNull \/ derived.threw
        THEN [ret |-> FALSE, exit |-> "throw", steps |-> 0]
      ELSE IF Len(derivedKey) # Len(expectedKey)
        THEN [ret |-> FALSE, exit |-> "length", steps |-> 0]
      ELSE [ret |-> loop.value = 0, exit |-> "compare", steps |-> loop.steps]

verifyPassword_100(hashedPassword, password) ==
  TryCatch(verifyColonBody(hashedPassword, password, 100))

verifyPassword_1000(hashedPassword, password) ==
  TryCatch(verifyColonBody(hashedPassword, password, 1000))

\* hashPassword of the tagged revision: algorithm$iterations$salt$hash.
hashPassword_tagged(password, salt) ==
  LET derivedBits ==
        deriveBits(TextEncode(password), salt, Num(PBKDF2_ITERATIONS),
                   PBKDF2_HASH_LENGTH * 8).bits
      saltHex == bufferToHex(salt)
      hashHex == bufferToHex(derivedBits)
  IN  PBKDF2_ALGORITHM \o << "$" >> \o NumberToString(PBKDF2_ITERATIONS)
        \o << "$" >> \o saltHex \o << "$" >> \o hashHex

\* verifyPassword of the tagged revision without its algorithm check.
verifyTaggedBodyAnyTag(hashString, password) ==
  LET parts == Split(hashString, "$")
      iterations == parseInt(parts[2], 10)
      salt == hexToBuffer(parts[3])
      storedHash == hexToBuffer(parts[4])
      derived == deriveBits(TextEncode(password), salt, iterations,
                            PBKDF2_HASH_LENGTH * 8)
      cmp == timingSafeEqual(storedHash, derived.bits)
  IN  IF Len(parts) # 4
        THEN [ret |-> FALSE, exit |-> "format", steps |-> 0]
      ELSE IF derived.threw
        THEN [ret |-> FALSE, exit |-> "throw", steps |-> 0]
      ELSE IF Len(storedHash) # Len(derived.bits)
        THEN [ret |-> FALSE, exit |-> "length", steps |-> 0]
      ELSE [ret |-> cmp.equal, exit |-> "compare", steps |-> cmp.steps]

\* The body of verifyPassword of the tagged revision inside its try block.
verifyTaggedBody(hashString, password) ==
  LET parts == Split(hashString, "$")
      algorithm == parts[1]
      iterations == parseInt(parts[2], 10)
      salt == hexToBuffer(parts[3])
      storedHash == hexToBuffer(parts[4])
      derived == deriveBits(TextEncode(password), salt, iterations,
                            PBKDF2_HASH_LENGTH * 8)
      cmp == timingSafeEqual(storedHash, derived.bits)
  IN  IF Len(parts) # 4
        THEN [ret |-> FALSE, exit |-> "format", steps |-> 0]
      ELSE IF algorithm # PBKDF2_ALGORITHM
        THEN [ret |-> FALSE, exit |-> "algorithm", steps |-> 0]
      ELSE IF derived.threw
        THEN [ret |-> FALSE, exit |-> "throw", steps |-> 0]
      ELSE IF Len(storedHash) # Len(derived.bits)
        THEN [ret |-> FALSE, exit |-> "length", steps |-> 0]
      ELSE [ret |-> cmp.equal, exit |-> "compare", steps |-> cmp.steps]

verifyPassword_tagged(hashString, password) ==
  TryCatch(verifyTaggedBody(hashString, password))

\* hashPassword of the scrypt revision: the salt is the hex string of
\* randomBytes(16) and is given to scrypt as that string.
hashPassword_scrypt(password, saltBytes) ==
  LET salt == bufferToHex(saltBytes)
      derivedKey == scrypt(password, salt, 64)
  IN  salt \o << ":" >> \o bufferToHex(derivedKey)

\* verifyPassword of the scrypt revision: no try block; nothing in its
\* Promise executor throws for string arguments.
verifyPassword_scrypt(hashedPassword, password) ==
  LET parts == Split(hashedPassword, ":")
      salt == parts[1]
      key == IF Len(parts) >= 2 THEN parts[2] ELSE << >>
      keyBuffer == BufferFromHex(key)
      derivedKey == scrypt(password, salt, 64)
      cmp == timingSafeEqual(derivedKey, keyBuffer)
  IN  IF salt = << >> \/ key = << >>
        THEN [ret |-> FALSE, threw |-> FALSE, exit |-> "format", steps |-> 0]
      ELSE IF Len(derivedKey) # Len(keyBuffer)
        THEN [ret |-> FALSE, threw |-> FALSE, exit |-> "length", steps |-> 0]
      ELSE [ret |-> cmp.equal, threw |-> FALSE, exit |-> "compare",
            steps |-> cmp.steps]

Revisions == {"pbkdf2_100", "pbkdf2_1000", "pbkdf2_tagged", "scrypt"}

\* The hash and verify callbacks given to betterAuth by revision rev.
HashPassword(rev, password, salt) ==
  CASE rev = "pbkdf2_100" -> hashPassword_100(password, salt)
    [] rev = "pbkdf2_1000" -> hashPassword_1000(password, salt)
    [] rev = "pbkdf2_tagged" -> hashPassword_tagged(password, salt)
    [] rev = "scrypt" -> hashPassword_scrypt(password, salt)

VerifyPassword(rev, stored, password) ==
  CASE rev = "pbkdf2_100" -> verifyPassword_100(stored, password)
    [] rev = "pbkdf2_1000" -> verifyPassword_1000(stored, password)
    [] rev = "pbkdf2_tagged" -> verifyPassword_tagged(stored, password)
    [] rev = "scrypt" -> verifyPassword_scrypt(stored, password)

\* The salt hashPassword of revision rev gives to its key derivation when
\* the random source returned saltBytes: the bytes themselves, and in the
\* scrypt revision their hex string.
HashSaltInput(rev, saltBytes) ==
  IF rev = "scrypt" THEN TextEncode(bufferToHex(saltBytes)) ELSE saltBytes

\* The salt verifyPassword of revision rev gives to its key derivation for
\* a stored string that it parses.
VerifySaltInput(rev, stored) ==
  CASE rev = "scrypt" -> TextEncode(Split(stored, ":")[1])
    [] rev = "pbkdf2_tagged" -> hexToBuffer(Split(stored, "$")[3])
    [] OTHER -> PairsToBytes(MatchPairs(Split(stored, ":")[1]).pairs)

(***************************************************************************)
(* The inputs of the credential module: passwords, the values the random   *)
(* source returns, and the stored strings given to verifyPassword (the     *)
(* strings hashPassword returned, and damaged copies of them).             *)
(***************************************************************************)

MaxHash == 2

Passwords == { << "h", "i" >>, << "h", "o" >> }

\* The random source filling a buffer of half the length asked for.
getRandomValuesHalf(n) ==
  { [i \in 1..(n \div 2) |-> i - 1],
    [i \in 1..(n \div 2) |-> (37 * i + 200) % 256] }

\* crypto.getRandomValues(new Uint8Array(n)) and randomBytes(n): any n
\* bytes; the model draws from two of them, one with bytes below 16.
getRandomValues(n) ==
  { [i \in 1..n |-> i - 1], [i \in 1..n |-> (37 * i + 200) % 256] }

\* The delimiter of the format revision rev writes.
Delimiter(rev) == IF rev = "pbkdf2_tagged" THEN "$" ELSE ":"

RECURSIVE JoinWith(_, _)
JoinWith(fields, d) ==
  IF Len(fields) = 1 THEN fields[1]
  ELSE fields[1] \o << d >> \o JoinWith(Tail(fields), d)

ToUpper(c) ==
  IF IndexOf(AsciiLower, c) > 0 THEN AsciiUpper[IndexOf(AsciiLower, c)] ELSE c

\* Another hex digit than c.
OtherDigit(c) == IF c = "0" THEN "1" ELSE "0"

TaggedOnly == {"zeroIterations", "badIterations", "iterationsSuffix",
               "foreignTag"}

TamperKinds ==
  {"none", "truncated", "trailingChar", "extraField", "upperHex",
   "nonHexKey", "emptyString", "noDelimiter", "shortSalt", "keyFirst",
   "keyLast"} \cup TaggedOnly

Applicable(kind, rev) == kind \in TaggedOnly => rev = "pbkdf2_tagged"

\* The stored string given to verifyPassword: the string str that revision
\* rev returned, damaged in the way kind names.
Tamper(kind, rev, str) ==
  LET d == Delimiter(rev)
      f == Split(str, d)
      n == Len(f)
      key == f[n]
      salt == f[n - 1]
      withKey(k) == JoinWith([f EXCEPT ![n] = k], d)
  IN  CASE kind = "none" -> str
        [] kind = "truncated" -> SubSeq(str, 1, Len(str) - 1)
        [] kind = "trailingChar" -> str \o << "0" >>
        [] kind = "extraField" -> str \o << d, "0", "0" >>
        [] kind = "upperHex" ->
             withKey([i \in 1..Len(key) |-> ToUpper(key[i])])
        [] kind = "nonHexKey" -> withKey([key EXCEPT ![Len(key)] = "g"])
        [] kind = "emptyString" -> << >>
        [] kind = "noDelimiter" -> Join(f)
        [] kind = "shortSalt" -> JoinWith([f EXCEPT ![n - 1] = << "a" >>], d)
        [] kind = "keyFirst" ->
             withKey([key EXCEPT ![1] = OtherDigit(key[1])])
        [] kind = "keyLast" ->
             withKey([key EXCEPT ![Len(key)] = OtherDigit(key[Len(key)])])
        [] kind = "zeroIterations" -> JoinWith([f EXCEPT ![2] = << "0" >>], d)
        [] kind = "badIterations" -> JoinWith([f EXCEPT ![2] = << "x" >>], d)
        [] kind = "iterationsSuffix" ->
             JoinWith([f EXCEPT ![2] = f[2] \o << "x" >>], d)
        [] kind = "foreignTag" ->
             JoinWith([f EXCEPT ![1] = << "s", "c", "r", "y", "p", "t" >>], d)

(***************************************************************************)
(* The state machine of the credential module.  A call of hashPassword or  *)
(* verifyPassword settles its promise (Hash, Verify); the caller then      *)
(* takes the result (Return) before the next call is made.                 *)
(***************************************************************************)

VARIABLES
  hashLog,   \* the bag of credentials hashPassword has returned
  last       \* the call whose result is being returned, NoCall when none

credVars == << hashLog, last >>

NoCall == [op |-> "none"]

\* Every credential hashPassword can return in the model.
AllCreds ==
  { [rev |-> rev, password |-> p, salt |-> salt,
     stored |-> HashPassword(rev, p, salt)] :
      rev \in Revisions, p \in Passwords,
      salt \in getRandomValues(PBKDF2_SALT_LENGTH) }

\* What verifyPassword of revision rev returns for each stored string of
\* the model.
VerifyCalls ==
  [rev \in Revisions, cred \in AllCreds, kind \in TamperKinds,
   candidate \in Passwords |->
     IF Applicable(kind, cred.rev)
       THEN LET stored == Tamper(kind, cred.rev, cred.stored)
            IN  [stored |-> stored,
                 out |-> VerifyPassword(rev, stored, candidate)]
       ELSE NoCall]

\* VerifyCalls as a table: TLC tabulates a function when it compares it, so
\* that each call is evaluated once and not once per state.
VerifyResult == IF VerifyCalls = VerifyCalls THEN VerifyCalls ELSE << >>

\* One invocation of hashPassword of revision rev.
Hash(rev, password) ==
  /\ last = NoCall
  /\ BagCardinality(hashLog) < MaxHash
  /\ \E cred \in AllCreds :
       /\ cred.rev = rev
       /\ cred.password = password
       /\ hashLog' = hashLog (+) SetToBag({cred})
       /\ last' = [op |-> "hash", cred |-> cred]

\* One invocation of verifyPassword of revision rev on a stored string.
Verify(rev, cred, kind, candidate) ==
  /\ last = NoCall
  /\ Applicable(kind, cred.rev)
  /\ last' = [op |-> "verify", rev |-> rev, cred |-> cred, tamper |-> kind,
              stored |-> VerifyResult[rev, cred, kind, candidate].stored,
              candidate |-> candidate,
              out |-> VerifyResult[rev, cred, kind, candidate].out]
  /\ UNCHANGED hashLog

\* The caller takes the result.
Return ==
  /\ last # NoCall
  /\ last' = NoCall
  /\ UNCHANGED hashLog

CredInit ==
  /\ hashLog = EmptyBag
  /\ last = NoCall

(***************************************************************************)
(* The Convex tables weatherLocations and weatherData and the queries and  *)
(* mutations of convex/weather.ts.  Every query and mutation is one atomic *)
(* step (a Convex function runs as a transaction).  A document id is the   *)
(* number of the insert that created it.  createdAt is written by          *)
(* addLocation and read by nothing, and is left out; the nine fields of a  *)
(* reading that updateWeatherData copies are one value, reading.           *)
(***************************************************************************)

MaxLocations == 2
MaxReadings == 2

Users == {"alice", "bob"}

LocationNames == { << " ", "B", " " >>, << " " >> }

Coordinates ==
  { [latitude |-> 0, longitude |-> 0], [latitude |-> 45, longitude |-> 90],
    [latitude |-> 91, longitude |-> 0], [latitude |-> 0, longitude |-> -181] }

Readings == {"clear"}

\* An optional argument is the set of its values: empty when it is absent.
OptionalBooleans == { {}, {TRUE}, {FALSE} }
OptionalHours == { {}, {0}, {1} }

MsPerHour == 60 * 60 * 1000

\* The instants (Date.now()) at which the functions run.
ClockInstants == {0, 13 * MsPerHour, 26 * MsPerHour}

VARIABLES
  weatherLocations,  \* the documents of table weatherLocations
  weatherData,       \* the documents of table weatherData
  nextLocationId,    \* the number of inserts into weatherLocations so far
  nextDataId,        \* the number of inserts into weatherData so far
  now,               \* Date.now()
  convexLast         \* the call whose result is being returned

convexVars ==
  << weatherLocations, weatherData, nextLocationId, nextDataId, now,
     convexLast >>

\* String.prototype.trim for the names of the model.
RECURSIVE TrimRight(_)
TrimRight(s) ==
  IF s # << >> /\ s[Len(s)] = " "
    THEN TrimRight(SubSeq(s, 1, Len(s) - 1)) ELSE s

Trim(s) == TrimRight(TrimLeft(s))

\* args.x || false for an optional boolean x.
OrFalse(opt) == TRUE \in opt

\* ctx.db.get(id): the document, or null (here the empty set).
DbGet(table, id) == { d \in table : d._id = id }

\* The document of docs that was created first (.first()) or last
\* (.order("desc").first()); docs is not empty.
First(docs) == CHOOSE d \in docs : \A e \in docs : d._id <= e._id
FirstDesc(docs) == CHOOSE d \in docs : \A e \in docs : d._id >= e._id

\* The user who owns the weather reading d: the owner of its location.
DataOwners(d) ==
  { l.userId : l \in DbGet(weatherLocations, d.locationId) }

\* What a call returns: the caller, whether the handler returned (ok) or
\* threw, what it returned, and the owners of the documents it returned,
\* changed or deleted.
Returned(op, caller, result, owners) ==
  [op |-> op, caller |-> caller, ok |-> TRUE, result |-> result,
   owners |-> owners]

Threw(op, caller, message) ==
  [op |-> op, caller |-> caller, ok |-> FALSE, result |-> message,
   owners |-> {}]

ConvexIdle == convexLast = NoCall

getUserLocations(userId) ==
  /\ ConvexIdle
  /\ LET docs == { l \in weatherLocations : l.userId = userId }
     IN  convexLast' = Returned("getUserLocations", userId,
                                { l._id : l \in docs },
                                { l.userId : l \in docs })
  /\ UNCHANGED << weatherLocations, weatherData, nextLocationId,
                  nextDataId, now >>

getLocationById(locationId, userId) ==
  /\ ConvexIdle
  /\ LET location == DbGet(weatherLocations, locationId)
     IN  convexLast' =
           IF location = {}
             THEN Threw("getLocationById", userId, "Location not found")
           ELSE IF \E l \in location : l.userId # userId
             THEN Threw("getLocationById", userId,
                        "Unauthorized access to location")
           ELSE Returned("getLocationById", userId, locationId,
                         { l.userId : l \in location })
  /\ UNCHANGED << weatherLocations, weatherData, nextLocationId,
                  nextDataId, now >>

\* getWeatherForLocation takes no userId; caller is the user who calls it.
getWeatherForLocation(caller, locationId) ==
  /\ ConvexIdle
  /\ LET docs == { d \in weatherData : d.locationId = locationId }
     IN  convexLast' =
           IF docs = {}
             THEN Returned("getWeatherForLocation", caller, {}, {})
             ELSE Returned("getWeatherForLocation", caller,
                           { FirstDesc(docs) }, DataOwners(FirstDesc(docs)))
  /\ UNCHANGED << weatherLocations, weatherData, nextLocationId,
                  nextDataId, now >>

getUserWeatherDashboard(userId) ==
  /\ ConvexIdle
  /\ LET locations == { l \in weatherLocations : l.userId = userId }
         dataOf(l) == { d \in weatherData : d.locationId = l._id }
         thirtyMinutesAgo == now - (30 * 60 * 1000)
         entry(l) ==
           [location |-> l._id,
            weather |-> IF dataOf(l) = {} THEN {}
                        ELSE { FirstDesc(dataOf(l))._id },
            isStale |-> IF dataOf(l) = {} THEN TRUE
                        ELSE FirstDesc(dataOf(l)).lastUpdated
                               < thirtyMinutesAgo]
     IN  convexLast' = Returned("getUserWeatherDashboard", userId,
                                { entry(l) : l \in locations },
                                { l.userId : l \in locations })
  /\ UNCHANGED << weatherLocations, weatherData, nextLocationId,
                  nextDataId, now >>

\* The query of addLocation without its index on userId.
existingLocationAnyUser(userId, latitude, longitude) ==
  { l \in weatherLocations :
      l.latitude = latitude /\ l.longitude = longitude }

\* The documents of the user at the coordinates (index by_userId, filter).
existingLocation(userId, latitude, longitude) ==
  { l \in weatherLocations :
      /\ l.userId = userId
      /\ l.latitude = latitude /\ l.longitude = longitude }

addLocation(userId, name, latitude, longitude, isCurrentLocation) ==
  LET mine == { l \in weatherLocations : l.userId = userId }
      same == existingLocation(userId, latitude, longitude)
      current == { l \in mine : l.isCurrentLocation }
      cleared ==
        IF OrFalse(isCurrentLocation) /\ current # {}
          THEN { IF l = First(current)
                   THEN [l EXCEPT !.isCurrentLocation = FALSE] ELSE l :
                 l \in weatherLocations }
          ELSE weatherLocations
      locationId == nextLocationId + 1
  IN  /\ ConvexIdle
      /\ IF Trim(name) = << >>
           THEN /\ convexLast' = Threw("addLocation", userId,
                                       "Location name cannot be empty")
                /\ UNCHANGED << weatherLocations, nextLocationId >>
         ELSE IF latitude < -90 \/ latitude > 90
           THEN /\ convexLast' = Threw("addLocation", userId,
                                       "Invalid latitude value")
                /\ UNCHANGED << weatherLocations, nextLocationId >>
         ELSE IF longitude < -180 \/ longitude > 180
           THEN /\ convexLast' = Threw("addLocation", userId,
                                       "Invalid longitude value")
                /\ UNCHANGED << weatherLocations, nextLocationId >>
         ELSE IF same # {}
           THEN /\ weatherLocations' =
                     { IF l = First(same)
                         THEN [l EXCEPT
                                 !.name = Trim(name),
                                 !.isCurrentLocation =
                                    OrFalse(isCurrentLocation)]
                         ELSE l : l \in weatherLocations }
                /\ convexLast' = Returned("addLocation", userId,
                                          First(same)._id, {userId})
                /\ UNCHANGED nextLocationId
         ELSE /\ nextLocationId < MaxLocations
              /\ weatherLocations' = cleared \cup
                   { [_id |-> locationId, userId |-> userId,
                      name |-> Trim(name), latitude |-> latitude,
                      longitude |-> longitude,
                      isCurrentLocation |-> OrFalse(isCurrentLocation)] }
              /\ nextLocationId' = locationId
              /\ convexLast' = Returned("addLocation", userId, locationId,
                                        {userId})
      /\ UNCHANGED << weatherData, nextDataId, now >>

\* A query that finds no reading of the location.
byNoLocationId(locationId) == { d \in weatherData : FALSE }

\* The readings of the location (index by_locationId, collect()).
byLocationId(locationId) ==
  { d \in weatherData : d.locationId = locationId }

removeLocation(locationId, userId) ==
  LET location == DbGet(weatherLocations, locationId)
      data == byLocationId(locationId)
  IN  /\ ConvexIdle
      /\ IF location = {}
           THEN /\ convexLast' = Threw("removeLocation", userId,
                                       "Location not found")
                /\ UNCHANGED << weatherLocations, weatherData >>
         ELSE IF \E l \in location : l.userId # userId
           THEN /\ convexLast' = Threw("removeLocation", userId,
                                       "Unauthorized")
                /\ UNCHANGED << weatherLocations, weatherData >>
         ELSE /\ weatherData' = weatherData \ data
              /\ weatherLocations' = weatherLocations \ location
              /\ convexLast' = Returned("removeLocation", userId, TRUE,
                                        { l.userId : l \in location })
      /\ UNCHANGED << nextLocationId, nextDataId, now >>

\* A query that only finds a reading written at this instant.
existingWeatherDataNow(locationId) ==
  { d \in weatherData : d.locationId = locationId /\ d.lastUpdated = now }

\* The readings of the location, of which updateWeatherData takes first().
existingWeatherData(locationId) ==
  { d \in weatherData : d.locationId = locationId }

\* updateWeatherData takes no userId; caller is the user who calls it.
updateWeatherData(caller, locationId, reading) ==
  LET location == DbGet(weatherLocations, locationId)
      existing == existingWeatherData(locationId)
      weatherDataId == nextDataId + 1
  IN  /\ ConvexIdle
      /\ IF location = {}
           THEN /\ convexLast' = Threw("updateWeatherData", caller,
                                       "Location not found")
                /\ UNCHANGED << weatherData, nextDataId >>
         ELSE IF existing # {}
           THEN /\ weatherData' =
                     { IF d = First(existing)
                         THEN [d EXCEPT !.reading = reading,
                                        !.lastUpdated = now]
                         ELSE d : d \in weatherData }
                /\ convexLast' = Returned("updateWeatherData", caller,
                                          First(existing)._id,
                                          { l.userId : l \in location })
                /\ UNCHANGED nextDataId
         ELSE /\ nextDataId < MaxReadings
              /\ weatherData' = weatherData \cup
                   { [_id |-> weatherDataId, locationId |-> locationId,
                      reading |-> reading, lastUpdated |-> now] }
              /\ nextDataId' = weatherDataId
              /\ convexLast' = Returned("updateWeatherData", caller,
                                        weatherDataId,
                                        { l.userId : l \in location })
      /\ UNCHANGED << weatherLocations, nextLocationId, now >>

\* cleanupStaleData takes no userId; caller is the user who calls it.
cleanupStaleData(caller, olderThanHours) ==
  LET hoursToKeep ==
        IF olderThanHours = {} \/ olderThanHours = {0} THEN 24
        ELSE CHOOSE h \in olderThanHours : TRUE
      cutoffTime == now - (hoursToKeep * 60 * 60 * 1000)
      staleData == { d \in weatherData : d.lastUpdated < cutoffTime }
  IN  /\ ConvexIdle
      /\ weatherData' = weatherData \ staleData
      /\ convexLast' = Returned("cleanupStaleData", caller,
                                Cardinality(staleData),
                                UNION { DataOwners(d) : d \in staleData })
      /\ UNCHANGED << weatherLocations, nextLocationId, nextDataId, now >>

\* Time passes between two calls.
Tick ==
  /\ ConvexIdle
  /\ \E t \in ClockInstants :
       /\ t > now
       /\ \A u \in ClockInstants : u > now => t <= u
       /\ now' = t
  /\ UNCHANGED << weatherLocations, weatherData, nextLocationId,
                  nextDataId, convexLast >>

\* The caller takes the result.
ConvexReturn ==
  /\ convexLast # NoCall
  /\ convexLast' = NoCall
  /\ UNCHANGED << weatherLocations, weatherData, nextLocationId,
                  nextDataId, now >>

ConvexInit ==
  /\ weatherLocations = {}
  /\ weatherData = {}
  /\ nextLocationId = 0
  /\ nextDataId = 0
  /\ now = 0
  /\ convexLast = NoCall

LocationIds == 1..MaxLocations

(***************************************************************************)
(* Concurrent invocations of hashPassword and verifyPassword.  Both are    *)
(* async functions: an invocation runs until an await (importKey,          *)
(* deriveBits) and is resumed later, other invocations running in          *)
(* between.  The heap holds the Uint8Array buffers hashPassword allocates  *)
(* for its salt; everything else an invocation uses is local to it.        *)
(***************************************************************************)

MaxInvocations == 2

\* The revisions the concurrent invocations are taken from.
ConcurrentRevisions == {"pbkdf2_1000", "pbkdf2_tagged"}

\* The stored strings given to the concurrent verifyPassword invocations.
ConcurrentKinds == {"none", "emptyString", "zeroIterations"}

VARIABLES
  heap,         \* the salt buffers allocated so far, by buffer id
  invocations   \* the invocations started so far, each with its locals

concurrentVars == << heap, invocations >>

\* The iteration count hashPassword of revision rev derives with.
IterationsOf(rev) ==
  CASE rev = "pbkdf2_100" -> Num(100)
    [] rev = "pbkdf2_1000" -> Num(1000)
    [] rev = "pbkdf2_tagged" -> Num(PBKDF2_ITERATIONS)

\* One buffer for every invocation: the salt buffer held in a variable of
\* the module instead of a local of hashPassword.
SharedUint8Array(h) == IF h = << >> THEN Len(h) + 1 ELSE 1

\* new Uint8Array(16): the id of a buffer no other invocation holds.
NewUint8Array(h) == Len(h) + 1

\* crypto.getRandomValues(buffer): the heap with the buffer filled.
FillRandom(h, buffer, bytes) ==
  [k \in 1..(IF buffer > Len(h) THEN buffer ELSE Len(h)) |->
     IF k = buffer THEN bytes ELSE h[k]]

\* The string hashPassword returns from its salt and its derived bits.
HashString(rev, salt, derivedBits) ==
  IF rev = "pbkdf2_tagged"
    THEN PBKDF2_ALGORITHM \o << "$" >> \o NumberToString(PBKDF2_ITERATIONS)
           \o << "$" >> \o bufferToHex(salt) \o << "$" >>
           \o bufferToHex(derivedBits)
    ELSE bufferToHex(salt) \o << ":" >> \o bufferToHex(derivedBits)

\* The locals of an invocation that has not assigned them yet.
NoLocals ==
  [salt |-> 0, saltBytes |-> << >>, expectedKey |-> << >>,
   iterations |-> Num(0), derivedBits |-> << >>,
   result |-> [str |-> << >>, ret |-> FALSE]]

Resolved(inv, str, ret) ==
  [inv EXCEPT !.pc = "done", !.local.result = [str |-> str, ret |-> ret]]

\* hashPassword up to its first await: the salt buffer is allocated and
\* filled, and importKey is awaited.
HashStart(rev, password) ==
  /\ Len(invocations) < MaxInvocations
  /\ \E cred \in AllCreds :
       /\ cred.rev = rev
       /\ cred.password = password
       /\ LET buffer == NewUint8Array(heap)
          IN  /\ heap' = FillRandom(heap, buffer, cred.salt)
              /\ invocations' = Append(invocations,
                   [op |-> "hash", rev |-> rev, password |-> password,
                    cred |-> cred, tamper |-> "none", pc |-> "importKey",
                    local |-> [NoLocals EXCEPT !.salt = buffer]])

\* hashPassword resumed after importKey: deriveBits is called with the
\* salt buffer, whose bytes it copies, and awaited.
HashImported(i) ==
  LET inv == invocations[i]
      derived == deriveBits(TextEncode(inv.password), heap[inv.local.salt],
                            IterationsOf(inv.rev), 256)
  IN  /\ inv.op = "hash"
      /\ inv.pc = "importKey"
      /\ invocations' =
           [invocations EXCEPT ![i].pc = "deriveBits",
                               ![i].local.derivedBits = derived.bits]
      /\ UNCHANGED heap

\* hashPassword resumed after deriveBits: the salt buffer and the derived
\* bits are written in hex and the string is returned.
HashDerived(i) ==
  LET inv == invocations[i]
  IN  /\ inv.op = "hash"
      /\ inv.pc = "deriveBits"
      /\ invocations' =
           [invocations EXCEPT
              ![i] = Resolved(inv, HashString(inv.rev, heap[inv.local.salt],
                                              inv.local.derivedBits), FALSE)]
      /\ UNCHANGED heap

\* What verifyPassword has parsed from the stored string when it reaches
\* importKey: [exit, salt, expectedKey, iterations]; exit is "" when it
\* goes on, and otherwise the return it took before.
VerifyParse(rev, stored) ==
  IF rev = "pbkdf2_tagged"
    THEN LET parts == Split(stored, "$")
         IN  IF Len(parts) # 4
               THEN [exit |-> "format", salt |-> << >>,
                     expectedKey |-> << >>, iterations |-> Num(0)]
             ELSE IF parts[1] # PBKDF2_ALGORITHM
               THEN [exit |-> "algorithm", salt |-> << >>,
                     expectedKey |-> << >>, iterations |-> Num(0)]
             ELSE [exit |-> "", salt |-> hexToBuffer(parts[3]),
                   expectedKey |-> hexToBuffer(parts[4]),
                   iterations |-> parseInt(parts[2], 10)]
    ELSE LET parts == Split(stored, ":")
             saltHex == parts[1]
             keyHex == IF Len(parts) >= 2 THEN parts[2] ELSE << >>
             saltMatch == MatchPairs(saltHex)
             keyMatch == MatchPairs(keyHex)
         IN  IF saltHex = << >> \/ keyHex = << >>
               THEN [exit |-> "format", salt |-> << >>,
                     expectedKey |-> << >>, iterations |-> Num(0)]
             ELSE IF saltMatch.isNull \/ keyMatch.isNull
               THEN [exit |-> "catch", salt |-> << >>,
                     expectedKey |-> << >>, iterations |-> Num(0)]
             ELSE [exit |-> "", salt |-> PairsToBytes(saltMatch.pairs),
                   expectedKey |-> PairsToBytes(keyMatch.pairs),
                   iterations |-> IterationsOf(rev)]

\* VerifyParse for each stored string of the model, as a table (see
\* VerifyResult).
ParseCalls ==
  [rev \in ConcurrentRevisions, cred \in AllCreds, kind \in ConcurrentKinds |->
     IF Applicable(kind, cred.rev)
       THEN VerifyParse(rev, Tamper(kind, cred.rev, cred.stored))
       ELSE NoCall]

ParseResult == IF ParseCalls = ParseCalls THEN ParseCalls ELSE << >>

\* verifyPassword up to its first await: the stored string is parsed into
\* locals, or false is returned at once.
VerifyStart(rev, cred, kind, candidate) ==
  LET parsed == ParseResult[rev, cred, kind]
      inv == [op |-> "verify", rev |-> rev, password |-> candidate,
              cred |-> cred, tamper |-> kind, pc |-> "importKey",
              local |-> [NoLocals EXCEPT !.saltBytes = parsed.salt,
                                         !.expectedKey = parsed.expectedKey,
                                         !.iterations = parsed.iterations]]
  IN  /\ Len(invocations) < MaxInvocations
      /\ cred.rev = rev
      /\ Applicable(kind, rev)
      /\ invocations' = Append(invocations,
           IF parsed.exit = "" THEN inv ELSE Resolved(inv, << >>, FALSE))
      /\ UNCHANGED heap

\* verifyPassword resumed after importKey: deriveBits is called with the
\* parsed salt and iterations; when it throws, the catch returns false.
VerifyImported(i) ==
  LET inv == invocations[i]
      derived == deriveBits(TextEncode(inv.password), inv.local.saltBytes,
                            inv.local.iterations, 256)
  IN  /\ inv.op = "verify"
      /\ inv.pc = "importKey"
      /\ invocations' =
           [invocations EXCEPT
              ![i] = IF derived.threw THEN Resolved(inv, << >>, FALSE)
                     ELSE [inv EXCEPT !.pc = "deriveBits",
                                      !.local.derivedBits = derived.bits]]
      /\ UNCHANGED heap

\* verifyPassword resumed after deriveBits: the lengths and the bytes of
\* the derived and the expected key are compared.
VerifyDerived(i) ==
  LET inv == invocations[i]
      derivedKey == inv.local.derivedBits
      expectedKey == inv.local.expectedKey
  IN  /\ inv.op = "verify"
      /\ inv.pc = "deriveBits"
      /\ invocations' =
           [invocations EXCEPT
              ![i] = Resolved(inv, << >>,
                       /\ Len(derivedKey) = Len(expectedKey)
                       /\ IF inv.rev = "pbkdf2_tagged"
                            THEN timingSafeEqual(expectedKey,
                                                 derivedKey).equal
                            ELSE CompareLoop(derivedKey, expectedKey,
                                   [value |-> 0, steps |-> 0]).value = 0)]
      /\ UNCHANGED heap

ConcurrentInit ==
  /\ heap = << >>
  /\ invocations = << >>

(***************************************************************************)
(* PUT /api/update-password of api/index.ts, with the session middleware   *)
(* in front of it.  One request is one step.  better-auth is modelled by   *)
(* what the handler uses of it: signInEmail throws unless the password     *)
(* verifies against the stored credential, ctx.password.hash is            *)
(* hashPassword, and internalAdapter.updatePassword replaces the stored    *)
(* credential or throws when the database fails.                           *)
(***************************************************************************)

\* The revision of src/auth.ts that api/index.ts is deployed with.
DeployedRevision == "pbkdf2_1000"

\* A password field of the JSON body: absent, the empty string, or a
\* password.
OptionalPasswords == { {}, { << >> } } \cup { {p} : p \in Passwords }

\* What the random source does for one call: it fills the buffer with one
\* of its values, or it is unavailable and getRandomValues throws.
Unavailable == << >>
RandomOutcomes == getRandomValues(PBKDF2_SALT_LENGTH) \cup {Unavailable}

VARIABLES
  account,   \* the stored credential of the user
  upLast     \* the update-password request answered last, and its answer

updatePasswordVars == << account, upLast >>

\* hashPassword that falls back to a salt of its own (0, 1, 2, ...) when
\* the random source is unavailable.
HashWithFallback(rev, password, random) ==
  LET salt == IF random = Unavailable
                THEN [i \in 1..PBKDF2_SALT_LENGTH |-> i - 1] ELSE random
  IN  [threw |-> FALSE,
       cred |-> CHOOSE c \in AllCreds :
                  /\ c.rev = rev
                  /\ c.password = password
                  /\ c.salt = salt]

\* hashPassword called with the random source in the given condition:
\* getRandomValues is its first statement and is outside any try block,
\* so when it throws the promise rejects and no string is made.
HashOrThrow(rev, password, random) ==
  IF random = Unavailable
    THEN [threw |-> TRUE, cred |-> NoCall]
    ELSE [threw |-> FALSE,
          cred |-> CHOOSE c \in AllCreds :
                     /\ c.rev = rev
                     /\ c.password = password
                     /\ c.salt = random]

\* A session middleware that leaves the user of an earlier request in the
\* context.
MiddlewareKeepsUser(sessionFound) ==
  [user |-> {"alice"}, session |-> IF sessionFound THEN {"s1"} ELSE {}]

\* The session middleware: user and session are both null when the lookup
\* finds no session.
Middleware(sessionFound) ==
  IF sessionFound THEN [user |-> {"alice"}, session |-> {"s1"}]
  ELSE [user |-> {}, session |-> {}]

\* c.json(body, status).
Json(status, body) == [status |-> status, body |-> body]

\* A sign-in that accepts every password that is not empty.
SignInThrowsOnEmpty(password) == password = << >>

\* auth.api.signInEmail with the user's email: throws unless the password
\* verifies against the stored credential.
SignInThrows(password) ==
  ~VerifyResult[DeployedRevision, account, "none", password].out.ret

\* The handler of PUT /api/update-password.
UpdatePassword(sessionFound, validJson, currentPassword, newPassword, random, dbFails) ==
  LET ctx == Middleware(sessionFound)
      hashed == HashOrThrow(DeployedRevision,
                            CHOOSE p \in newPassword : TRUE, random)
      answer(response, hashedIs, written) ==
        /\ upLast' = [op |-> "update-password",
                      sessionFound |-> sessionFound, validJson |-> validJson,
                      currentPassword |-> currentPassword,
                      newPassword |-> newPassword, random |-> random,
                      dbFails |-> dbFails, before |-> account,
                      hashed |-> hashedIs, response |-> response]
        /\ account' = written
  IN  /\ upLast = NoCall
      /\ IF ctx.user = {} \/ ctx.session = {}
           THEN answer(Json(401, "Unauthorized"), {}, account)
         ELSE IF ~validJson
           THEN answer(Json(500, "Failed to update password"), {}, account)
         ELSE IF currentPassword \subseteq { << >> }
                 \/ newPassword \subseteq { << >> }
           THEN answer(Json(400,
                  "Current password and new password are required"),
                  {}, account)
         ELSE IF SignInThrows(CHOOSE p \in currentPassword : TRUE)
           THEN answer(Json(400, "Current password is incorrect"), {},
                       account)
         ELSE IF hashed.threw
           THEN answer(Json(500, "Failed to update password"), {}, account)
         ELSE IF dbFails
           THEN answer(Json(500, "Failed to update password"),
                       {hashed.cred.stored}, account)
         ELSE answer(Json(200, "success"), {hashed.cred.stored},
                     hashed.cred)

\* The client receives the answer.
UpdatePasswordReturn ==
  /\ upLast # NoCall
  /\ upLast' = NoCall
  /\ UNCHANGED account

\* The user has signed up: the account holds a credential of the deployed
\* revision.
UpdatePasswordInit ==
  /\ account = CHOOSE c \in AllCreds :
                 /\ c.rev = DeployedRevision
                 /\ c.password = << "h", "i" >>
                 /\ c.salt[1] = 0
  /\ upLast = NoCall

(***************************************************************************)
(* retryDelay of weatherQueryOptions.dashboard (lib/weather-queries.ts).   *)
(* A JavaScript number 1000 * 2 ** n is a double, exact for every n below  *)
(* 1024; it is held here as mantissa and exponent, so that Math.min is     *)
(* computed exactly where the product exceeds the integers of the model.   *)
(***************************************************************************)

MaxAttemptIndex == 60

\* c / 2 ** exp rounded down, by halving.
RECURSIVE FloorShift(_, _)
FloorShift(c, exp) ==
  IF exp = 0 \/ c = 0 THEN c ELSE FloorShift(c \div 2, exp - 1)

\* 2 ** exp for a power that fits the integers of the model.
RECURSIVE Pow2(_)
Pow2(exp) == IF exp = 0 THEN 1 ELSE 2 * Pow2(exp - 1)

\* Math.min(mant * 2 ** exp, cap) for positive integers mant and cap.
MathMinScaled(mant, exp, cap) ==
  IF mant <= FloorShift(cap, exp) THEN mant * Pow2(exp) ELSE cap

\* A linear backoff: Math.min(1000 * (attemptIndex + 1), 30000).
retryDelayLinear(attemptIndex) ==
  MathMinScaled(1000 * (attemptIndex + 1), 0, 30000)

\* retryDelay: (attemptIndex) => Math.min(1000 * 2 ** attemptIndex, 30000).
retryDelay(attemptIndex) == MathMinScaled(1000, attemptIndex, 30000)

VARIABLES
  attemptIndex,  \* the attempt index the query retries with
  delay          \* the delay retryDelay returned for it; empty before

retryVars == << attemptIndex, delay >>

\* The query asks for the delay before its next attempt.
RetryDelay ==
  /\ delay = {}
  /\ delay' = { retryDelay(attemptIndex) }
  /\ UNCHANGED attemptIndex

\* The attempt fails again after the delay.
NextAttempt ==
  /\ delay # {}
  /\ attemptIndex < MaxAttemptIndex
  /\ attemptIndex' = attemptIndex + 1
  /\ delay' = {}

RetryInit ==
  /\ attemptIndex = 0
  /\ delay = {}

(***************************************************************************)
(* The sign-out mutation of lib/auth-actions.ts.  The auth client answers  *)
(* a call with { data, error } (lines 29-30 read both and throw on error); *)
(* useSignOutMutation hands the promise of authClient.signOut() to the     *)
(* mutation as it is, so that onSuccess runs whenever the promise resolves *)
(* and onError only when it rejects.                                       *)
(***************************************************************************)

Routes == { "/", "/auth", "/dashboard" }

\* How authClient.signOut() settles: resolved with data, resolved with an
\* error, or rejected.
SignOutOutcomes == { "data", "error", "rejected" }

VARIABLES
  serverSession,   \* the user the server holds a session for; empty if none
  sessionCache,    \* the ['session'] entry of the query cache; empty is null
  sessionStale,    \* the ['session'] query has been invalidated
  location,        \* the route the router is on
  signOutMutation, \* the status of the sign-out mutation
  effects,         \* what the running sign-out did, in order
  signOutLast      \* the last settled sign-out, with the cache around it

signOutVars ==
  << serverSession, sessionCache, sessionStale, location, signOutMutation,
     effects, signOutLast >>

NoSignOut ==
  [ outcome |-> "none", cacheBefore |-> {}, cacheAfter |-> {},
    locationBefore |-> "/", locationAfter |-> "/" ]

\* handleSuccess of a sign-in: invalidate ['session'], go to the dashboard.
handleSuccess(user) ==
  /\ serverSession = {}
  /\ serverSession' = { user }
  /\ sessionStale' = TRUE
  /\ location' = "/dashboard"
  /\ UNCHANGED << sessionCache, signOutMutation, effects, signOutLast >>

\* The invalidated ['session'] query fetches the session again.
SessionRefetch ==
  /\ sessionStale
  /\ sessionCache' = serverSession
  /\ sessionStale' = FALSE
  /\ UNCHANGED << serverSession, location, signOutMutation, effects,
                  signOutLast >>

\* The user follows a link.
Navigate(to) ==
  /\ location # to
  /\ location' = to
  /\ UNCHANGED << serverSession, sessionCache, sessionStale, signOutMutation,
                  effects, signOutLast >>

\* mutate(): mutationFn calls authClient.signOut().
SignOutMutate ==
  /\ signOutMutation # "pending"
  /\ signOutMutation' = "pending"
  /\ effects' = << "signOut" >>
  /\ UNCHANGED << serverSession, sessionCache, sessionStale, location,
                  signOutLast >>

\* onSuccess: setQueryData(['session'], null), then navigate({ to: '/' }).
onSuccess(outcome) ==
  /\ sessionCache' = {}
  /\ location' = "/"
  /\ signOutMutation' = "success"
  /\ effects' = effects \o << "setQueryData", "navigate" >>
  /\ signOutLast' =
       [ outcome |-> outcome,
         cacheBefore |-> sessionCache, cacheAfter |-> {},
         locationBefore |-> location, locationAfter |-> "/" ]

\* onError: alert the message.
onError(outcome) ==
  /\ signOutMutation' = "error"
  /\ effects' = effects \o << "alert" >>
  /\ signOutLast' =
       [ outcome |-> outcome,
         cacheBefore |-> sessionCache, cacheAfter |-> sessionCache,
         locationBefore |-> location, locationAfter |-> location ]
  /\ UNCHANGED << sessionCache, location >>

\* The promise of authClient.signOut() settles.
SignOutSettled(outcome) ==
  /\ signOutMutation = "pending"
  /\ serverSession' = IF outcome = "data" THEN {} ELSE serverSession
  /\ IF outcome = "rejected" THEN onError(outcome) ELSE onSuccess(outcome)
  /\ UNCHANGED sessionStale

SignOutInit ==
  /\ serverSession = {}
  /\ sessionCache = {}
  /\ sessionStale = FALSE
  /\ location = "/"
  /\ signOutMutation = "idle"
  /\ effects = << >>
  /\ signOutLast = NoSignOut

(***************************************************************************)
(* useDeleteLocationMutationWithOptimistic of lib/weather-queries.ts.      *)
(* Every mutate() runs onMutate, mutationFn and then onError or onSuccess  *)
(* and onSettled with its own context; several can be in flight at once.   *)
(* The dashboard array under ['weather'] is held as the set of the         *)
(* location ids of its items.                                              *)
(***************************************************************************)

MaxDeletes == 2

\* The locations the user has when the dashboard is first loaded.
DashboardLocations == { "l1", "l2", "l3" }

VARIABLES
  serverLocations,  \* the locations the server holds
  dashboardData,    \* the cached data of the ['weather', ...] query
  invalidated,      \* the query has been invalidated and not yet refetched
  fetching,         \* the response of the refetch in flight; empty if none
  deletes,          \* the delete mutations, each with its context
  deleteLast        \* the last onError, with the cache around it

deleteVars ==
  << serverLocations, dashboardData, invalidated, fetching, deletes,
     deleteLast >>

NoDelete ==
  [ op |-> "none", locationId |-> "", previousData |-> {},
    cacheBefore |-> {}, cacheAfter |-> {} ]

\* mutate(locationId): onMutate starts and awaits cancelQueries, which
\* cancels the refetch in flight.
DeleteMutate(locationId) ==
  /\ Len(deletes) < MaxDeletes
  /\ locationId \in dashboardData
  /\ deletes' = Append(deletes,
       [ locationId |-> locationId, pc |-> "onMutate",
         previousData |-> {} ])
  /\ fetching' = {}
  /\ UNCHANGED << serverLocations, dashboardData, invalidated, deleteLast >>

\* onMutate after its await: snapshot the data, filter the location out,
\* return the context; mutationFn then sends the DELETE request.
DeleteSnapshot(i) ==
  /\ deletes[i].pc = "onMutate"
  /\ deletes' = [deletes EXCEPT ![i].pc = "mutationFn",
                                ![i].previousData = { dashboardData }]
  /\ dashboardData' = dashboardData \ { deletes[i].locationId }
  /\ UNCHANGED << serverLocations, invalidated, fetching, deleteLast >>

\* The request succeeded: onSuccess, then onSettled invalidates.
DeleteSucceeded(i) ==
  /\ deletes[i].pc = "mutationFn"
  /\ deletes[i].locationId \in serverLocations
  /\ serverLocations' = serverLocations \ { deletes[i].locationId }
  /\ deletes' = [deletes EXCEPT ![i].pc = "success"]
  /\ invalidated' = TRUE
  /\ UNCHANGED << dashboardData, fetching, deleteLast >>

\* The request failed: onError puts the snapshot back, then onSettled
\* invalidates.
DeleteFailed(i) ==
  /\ deletes[i].pc = "mutationFn"
  /\ LET restored ==
           IF deletes[i].previousData = {} THEN dashboardData
           ELSE CHOOSE data \in deletes[i].previousData : TRUE
     IN  /\ dashboardData' = restored
         /\ deleteLast' =
              [ op |-> "onError", locationId |-> deletes[i].locationId,
                previousData |-> restored,
                cacheBefore |-> dashboardData, cacheAfter |-> restored ]
  /\ deletes' = [deletes EXCEPT ![i].pc = "error"]
  /\ invalidated' = TRUE
  /\ UNCHANGED << serverLocations, fetching >>

\* The invalidated query starts to refetch.
RefetchStart ==
  /\ invalidated
  /\ fetching = {}
  /\ fetching' = { serverLocations }
  /\ invalidated' = FALSE
  /\ UNCHANGED << serverLocations, dashboardData, deletes, deleteLast >>

\* The refetch delivers its response.
RefetchDone ==
  /\ fetching # {}
  /\ dashboardData' = CHOOSE data \in fetching : TRUE
  /\ fetching' = {}
  /\ UNCHANGED << serverLocations, invalidated, deletes, deleteLast >>

DeleteInit ==
  /\ serverLocations = DashboardLocations
  /\ dashboardData = DashboardLocations
  /\ invalidated = FALSE
  /\ fetching = {}
  /\ deletes = << >>
  /\ deleteLast = NoDelete

(***************************************************************************)
(* WeatherService.makeRequest (api/services/weather-service.ts), on one    *)
(* instance of the service.  makeRequest is an async function: a call runs *)
(* to its next await (fetch, response.json(), the backoff timer) and other *)
(* calls run in between.                                                   *)
(***************************************************************************)

MaxRequests == 2

\* retries = 3, the default of makeRequest.
Retries == 3

\* CACHE_DURATION = 5 * 60 * 1000.
CACHE_DURATION == 5 * 60 * 1000

Urls == { "weather?lat=0&lon=0", "weather?lat=45&lon=90" }

\* The status of a response; 0 stands for a fetch that threw.
Statuses == { 200, 429, 401, 404, 500, 0 }

\* The instants (Date.now()) at which the service runs.
ServiceInstants == { 0, CACHE_DURATION }

VARIABLES
  requestCache,  \* this.requestCache: for every url its entry, if any
  serviceNow,    \* Date.now()
  requests       \* the calls of makeRequest, each with its locals

serviceVars == << requestCache, serviceNow, requests >>

\* A call that found nothing fresh in the cache enters the loop and fetches.
FirstAttempt(url) ==
  [ url |-> url, started |-> serviceNow, pc |-> "fetch", attempt |-> 1,
    fetches |-> 1, cached |-> FALSE ]

\* makeRequest(url) up to its first await, or to its return from the cache.
makeRequest(url) ==
  /\ Len(requests) < MaxRequests
  /\ LET cached == requestCache[url]
         fresh == \E e \in cached : serviceNow - e.timestamp < CACHE_DURATION
     IN  requests' = Append(requests,
           IF fresh
             THEN [ url |-> url, started |-> serviceNow, pc |-> "returned",
                    attempt |-> 0, fetches |-> 0, cached |-> TRUE ]
             ELSE FirstAttempt(url))
  /\ UNCHANGED << requestCache, serviceNow >>

\* A catch block that rethrows at once.
CaughtRethrow(r) == [r EXCEPT !.pc = "threw"]

\* The catch block: rethrow on the last attempt, otherwise back off.
Caught(r) ==
  IF r.attempt = Retries
    THEN [r EXCEPT !.pc = "threw"]
    ELSE [r EXCEPT !.pc = "backoff"]

\* await fetch(url) settles.  429 waits and continues; any other failure
\* throws inside the try block and is caught.
FetchSettled(i, status) ==
  /\ requests[i].pc = "fetch"
  /\ requests' = [requests EXCEPT ![i] =
       IF status = 200 THEN [@ EXCEPT !.pc = "json"]
       ELSE IF status = 429 THEN [@ EXCEPT !.pc = "rateLimited"]
       ELSE Caught(@)]
  /\ UNCHANGED << requestCache, serviceNow >>

\* await response.json() resolves: cache the data and return it.
JsonResolved(i) ==
  /\ requests[i].pc = "json"
  /\ requestCache' = [requestCache EXCEPT ![requests[i].url] =
       { [ data |-> "data", timestamp |-> serviceNow ] }]
  /\ requests' = [requests EXCEPT ![i].pc = "returned"]
  /\ UNCHANGED serviceNow

\* await response.json() rejects: the catch block.
JsonRejected(i) ==
  /\ requests[i].pc = "json"
  /\ requests' = [requests EXCEPT ![i] = Caught(@)]
  /\ UNCHANGED << requestCache, serviceNow >>

\* The backoff timer fires: the loop goes to its next attempt and fetches
\* again, or ends with 'Max retries exceeded'.
BackoffElapsed(i) ==
  /\ requests[i].pc \in { "rateLimited", "backoff" }
  /\ requests' = [requests EXCEPT ![i] =
       IF @.attempt + 1 <= Retries
         THEN [@ EXCEPT !.pc = "fetch", !.attempt = @ + 1,
                        !.fetches = @ + 1]
         ELSE [@ EXCEPT !.pc = "threw"]]
  /\ UNCHANGED << requestCache, serviceNow >>

\* Time passes.
ServiceTick ==
  /\ \E t \in ServiceInstants : t > serviceNow /\ serviceNow' = t
  /\ UNCHANGED << requestCache, requests >>

ServiceInit ==
  /\ requestCache = [ url \in Urls |-> {} ]
  /\ serviceNow = 0
  /\ requests = << >>

(***************************************************************************)
(* POST /locations of api/weather.ts.  The handler validates the body,     *)
(* takes the coordinates given or geocodes the name, then awaits the       *)
(* Convex mutations addLocation and updateWeatherData, which act on the    *)
(* tables modelled above.  A JSON value of the body is held with its type. *)
(***************************************************************************)

JsonNumber(n) == [ type |-> "number", value |-> n ]
JsonString == [ type |-> "string", value |-> 1 ]
JsonUndefined == [ type |-> "undefined", value |-> 0 ]

\* ToBoolean of a JSON value: 0 and undefined are falsy, the string here
\* is not empty.
Truthy(v) == (v.type = "number" /\ v.value # 0) \/ v.type = "string"

Latitudes ==
  { JsonUndefined, JsonString } \cup { JsonNumber(n) : n \in { 0, 45, 91 } }
Longitudes ==
  { JsonUndefined, JsonString } \cup
    { JsonNumber(n) : n \in { -181, 0, 90 } }

\* The name of the body: absent, empty, blank or a name.
PostNames == { {}, { << >> }, { << " " >> }, { << " ", "B", " " >> } }

\* c.get('user'): nobody, or the user of the session.
PostUsers == { {}, { "alice" } }

\* isCurrentLocation of the body: absent or true.
PostFlags == { {}, { TRUE } }

\* What geocodeLocation(name) gives: a place, or nothing when it throws.
GeocodeOutcomes ==
  { {}, { [ name |-> << "C" >>, latitude |-> 45, longitude |-> 90 ] } }

\* What getCurrentWeather gives: a reading, or nothing when it throws.
WeatherOutcomes == { {} } \cup { { r } : r \in Readings }

VARIABLES post  \* the request being handled, with the handler's locals

postVars == << post >>

NoPost == [ pc |-> "idle" ]

PostResponse(status, error) == [ status |-> status, error |-> error ]

\* The handler up to its first Convex call.
PostLocations(user, validJson, name, latitude, longitude, isCurrentLocation, geocode) ==
  LET request ==
        [ pc |-> "done", user |-> user, name |-> name,
          latitude |-> latitude, longitude |-> longitude,
          isCurrentLocation |-> isCurrentLocation, geocoded |-> FALSE,
          locationData |-> {}, locationId |-> {}, weather |-> {},
          response |-> {} ]
      Answer(status, error) ==
        [request EXCEPT !.response = { PostResponse(status, error) }]
  IN  /\ post.pc = "idle"
      /\ post' =
           IF user = {}
             THEN Answer(401, "Authentication required")
           ELSE IF ~validJson
             THEN Answer(500, "Internal server error")
           ELSE IF name = {} \/ name = { << >> }
             THEN Answer(400, "Location name is required")
           ELSE IF Truthy(latitude) /\ Truthy(longitude)
             THEN IF latitude.type # "number" \/ longitude.type # "number"
                    THEN Answer(400, "Invalid coordinates")
                  ELSE IF \/ latitude.value < -90 \/ latitude.value > 90
                          \/ longitude.value < -180 \/ longitude.value > 180
                    THEN Answer(400, "Invalid coordinate values")
                  ELSE [request EXCEPT
                          !.pc = "addLocation",
                          !.locationData =
                             { [ name |-> Trim(CHOOSE n \in name : TRUE),
                                 latitude |-> latitude.value,
                                 longitude |-> longitude.value ] }]
           ELSE IF geocode = {}
             THEN Answer(404, "Location not found")
           ELSE [request EXCEPT !.pc = "addLocation", !.geocoded = TRUE,
                                !.locationData = geocode]

\* await convex.mutation(api.weather.addLocation, ...).
PostAddLocation ==
  /\ post.pc = "addLocation"
  /\ \E user \in post.user, data \in post.locationData :
       addLocation(user, data.name, data.latitude, data.longitude,
                   { OrFalse(post.isCurrentLocation) })
  /\ post' = [post EXCEPT !.pc = "added"]

\* The mutation settled: its id, or the catch of convexError.
PostAdded ==
  /\ post.pc = "added"
  /\ post' =
       IF convexLast.ok
         THEN [post EXCEPT !.pc = "weather",
                           !.locationId = { convexLast.result }]
         ELSE [post EXCEPT !.pc = "done",
                 !.response = { PostResponse(500, "Failed to save location") }]
  /\ convexLast' = NoCall
  /\ UNCHANGED << weatherLocations, weatherData, nextLocationId, nextDataId,
                  now >>

\* getCurrentWeather settled; with a reading, updateWeatherData is called.
PostWeather(weather) ==
  /\ post.pc = "weather"
  /\ IF weather = {}
       THEN /\ post' = [post EXCEPT !.pc = "done",
                 !.response =
                    { PostResponse(200,
                        "Location added but weather data unavailable") }]
            /\ UNCHANGED convexVars
       ELSE /\ \E user \in post.user, id \in post.locationId, r \in weather :
                 updateWeatherData(user, id, r)
            /\ post' = [post EXCEPT !.pc = "updated", !.weather = weather]

\* updateWeatherData settled: success, or the catch of weatherError.
PostUpdated ==
  /\ post.pc = "updated"
  /\ post' = [post EXCEPT !.pc = "done",
       !.response =
          { PostResponse(200,
              IF convexLast.ok THEN ""
              ELSE "Location added but weather data unavailable") }]
  /\ convexLast' = NoCall
  /\ UNCHANGED << weatherLocations, weatherData, nextLocationId, nextDataId,
                  now >>

\* The response has been sent.
PostReturn ==
  /\ post.pc = "done"
  /\ post' = NoPost

PostInit == post = NoPost

(***************************************************************************)
(* getAuth and cachedAuth of auth.ts, in its two revisions: the one that   *)
(* tests isEnvValid (lines 80-134) and the one that tests shouldCache      *)
(* (lines 229-311).  cachedAuth is a variable of the module: it lives as   *)
(* long as the worker's isolate.  An instance of betterAuth is held with   *)
(* the environment it was built from.                                      *)
(***************************************************************************)

MaxInstances == 3

AuthRevisions == { "isEnvValid", "shouldCache" }

\* env.DB: undefined, an object without prepare, or a D1 binding.
Databases == { "undefined", "noPrepare", "d1" }

\* The environments getAuth is called with.
Envs ==
  [ DB : Databases, SESSIONS : { "undefined", "kv" },
    BETTER_AUTH_SECRET : { "s1", "s2" } ]

VARIABLES
  authRevision,  \* the revision of auth.ts the worker runs
  cachedAuth,    \* cachedAuth: empty is null
  instances,     \* the number of betterAuth instances built so far
  firstValid,    \* what the first call with a valid environment returned
  getAuthLast    \* the last call of getAuth

authVars == << authRevision, cachedAuth, instances, firstValid, getAuthLast >>

\* env.DB && typeof env.DB.prepare === 'function'.
HasDatabase(env) == env.DB = "d1"

\* isEnvValid of the first revision, shouldCache of the second.
isEnvValid(rev, env) ==
  IF rev = "isEnvValid"
    THEN HasDatabase(env) /\ env.SESSIONS # "undefined"
    ELSE HasDatabase(env)

\* A cache that only serves the environment its instance was built from.
CachedForSameEnv(rev, env) ==
  IF isEnvValid(rev, env)
    THEN { a \in cachedAuth : a.env = env }
    ELSE {}

\* The cached instance getAuth returns, if it returns one.
CachedFor(rev, env) ==
  IF isEnvValid(rev, env) THEN cachedAuth ELSE {}

\* betterAuth({...}): a new instance built from env.
betterAuth(env) == [ id |-> instances + 1, env |-> env ]

getAuth(rev, env) ==
  LET valid == isEnvValid(rev, env)
      hit == CachedFor(rev, env)
      \* the second revision fills an empty cache before it looks into it
      fills == rev = "shouldCache" /\ valid /\ cachedAuth = {}
      builds == hit = {} \/ fills
      result ==
        IF builds THEN betterAuth(env) ELSE CHOOSE a \in hit : TRUE
  IN  /\ authRevision \in { "none", rev }
      /\ authRevision' = rev
      /\ builds => instances < MaxInstances
      /\ instances' = IF builds THEN instances + 1 ELSE instances
      /\ cachedAuth' = IF builds /\ valid THEN { result } ELSE cachedAuth
      /\ firstValid' =
           IF valid /\ firstValid = {} THEN { result } ELSE firstValid
      /\ getAuthLast' =
           [ op |-> "getAuth", env |-> env, result |-> result,
             built |-> builds, cachedBefore |-> cachedAuth,
             instancesBefore |-> instances ]

AuthInit ==
  /\ authRevision = "none"
  /\ cachedAuth = {}
  /\ instances = 0
  /\ firstValid = {}
  /\ getAuthLast = [ op |-> "none" ]

(***************************************************************************)
(* The auto-refresh of one WeatherCard (components/WeatherCard.tsx).       *)
(* checkAndRefresh runs on mount and on every tick of the interval; the    *)
(* refresh button calls handleRefresh and is disabled while the mutation   *)
(* is pending.  The mutations the card has started and that have not       *)
(* settled are kept as a set, so that two of them in flight can be told.   *)
(***************************************************************************)

\* 5 * 60 * 1000: the age from which the data is stale.
FiveMinutes == 5 * 60 * 1000

\* The instants (Date.now()) at which the card runs.
CardInstants == { 0, FiveMinutes, FiveMinutes + 1, 2 * FiveMinutes + 2 }

VARIABLES
  cardNow,         \* Date.now()
  cardWeather,     \* props.weather: empty is null, else its lastUpdated
  autoRefreshing,  \* the signal autoRefreshing
  mutationStatus,  \* the status of refreshWeatherMutation
  inFlight,        \* the refreshes started and not settled, by kind
  cardLast         \* the last step of the card

cardVars ==
  << cardNow, cardWeather, autoRefreshing, mutationStatus, inFlight,
     cardLast >>

\* refreshWeatherMutation.isPending.
isPending == mutationStatus = "pending"

\* !props.weather || props.weather.lastUpdated < fiveMinutesAgo.
isDataStale ==
  cardWeather = {} \/ \E lastUpdated \in cardWeather :
                        lastUpdated < cardNow - FiveMinutes

\* The check of the README's sample: stale data alone.
MayAutoRefreshIfStale(stale, pending, auto) == stale

\* isDataStale && !refreshWeatherMutation.isPending && !autoRefreshing().
MayAutoRefresh(stale, pending, auto) == stale /\ ~pending /\ ~auto

\* mutateAsync: one more refresh of kind k in flight.
Started(k) == inFlight (+) SetToBag({ k })

\* checkAndRefresh up to its await.
checkAndRefresh ==
  LET may == MayAutoRefresh(isDataStale, isPending, autoRefreshing)
  IN  /\ IF may
           THEN /\ autoRefreshing' = TRUE
                /\ mutationStatus' = "pending"
                /\ inFlight' = Started("auto")
           ELSE UNCHANGED << autoRefreshing, mutationStatus, inFlight >>
      /\ cardLast' = [ op |-> "checkAndRefresh", issued |-> may,
                       stale |-> isDataStale, inFlightBefore |-> inFlight ]
      /\ UNCHANGED << cardNow, cardWeather >>

\* A click on the refresh button, which is disabled while isPending.
handleRefresh ==
  /\ ~isPending
  /\ mutationStatus' = "pending"
  /\ inFlight' = Started("manual")
  /\ cardLast' = [ op |-> "handleRefresh", issued |-> TRUE,
                   stale |-> isDataStale, inFlightBefore |-> inFlight ]
  /\ UNCHANGED << cardNow, cardWeather, autoRefreshing >>

\* A refresh settles.  On success the dashboard is refetched and, when the
\* server got a reading, props.weather is the reading of this instant.  The
\* finally block of checkAndRefresh clears the signal.
RefreshSettled(k, ok, reading) ==
  /\ BagIn(k, inFlight)
  /\ inFlight' = inFlight (-) SetToBag({ k })
  /\ mutationStatus' = IF ok THEN "success" ELSE "error"
  /\ cardWeather' = IF ok /\ reading THEN { cardNow } ELSE cardWeather
  /\ autoRefreshing' = IF k = "auto" THEN FALSE ELSE autoRefreshing
  /\ cardLast' = [ op |-> "settled", issued |-> FALSE, stale |-> isDataStale,
                   inFlightBefore |-> inFlight ]
  /\ UNCHANGED cardNow

\* Time passes.
CardTick ==
  /\ \E t \in CardInstants : t > cardNow /\ cardNow' = t
  /\ cardLast' = [ op |-> "tick", issued |-> FALSE, stale |-> isDataStale,
                   inFlightBefore |-> inFlight ]
  /\ UNCHANGED << cardWeather, autoRefreshing, mutationStatus, inFlight >>

\* The card is mounted with the weather of the dashboard query, if any.
CardInit ==
  /\ cardNow = 0
  /\ cardWeather = {}
  /\ autoRefreshing = FALSE
  /\ mutationStatus = "idle"
  /\ inFlight = EmptyBag
  /\ cardLast = [ op |-> "none" ]

(***************************************************************************)
(* One request through the Hono app (api/index.ts): the session middleware *)
(* of /api/*, then PUT /api/update-password or, through the middleware of  *)
(* weatherApi (api/weather.ts), one of its routes.  The client fetches the *)
(* weather routes under /api/weather (lib/weather-queries.ts); none of the *)
(* paths below starts with /api/auth, so the session lookup always runs.   *)
(***************************************************************************)

WeatherRoutes ==
  { "GET /api/weather/", "POST /api/weather/locations",
    "DELETE /api/weather/locations/:locationId" }

ApiRoutes == { "PUT /api/update-password" } \cup WeatherRoutes

VARIABLES apiRequest  \* the request being handled, with c.get(...)

apiVars == << apiRequest >>

NoApi == [ pc |-> "idle" ]

\* c.json(..., status) of the request: the status that is answered.
ApiAnswer(status) == [apiRequest EXCEPT !.pc = "done", !.response = { status }]

\* app.use('/api/*', ...): the session lookup, c.set of user and session,
\* then next().
SessionMiddleware(route, sessionFound) ==
  /\ apiRequest = NoApi
  /\ upLast = NoCall /\ post = NoPost /\ ConvexIdle
  /\ apiRequest' = [ pc |-> "next", route |-> route,
                     sessionFound |-> sessionFound,
                     user |-> Middleware(sessionFound).user,
                     session |-> Middleware(sessionFound).session,
                     response |-> {} ]

\* app.put('/api/update-password', ...), with the context of the middleware.
ApiUpdatePassword(validJson, currentPassword, newPassword, random, dbFails) ==
  /\ apiRequest.pc = "next"
  /\ apiRequest.route = "PUT /api/update-password"
  /\ UpdatePassword(apiRequest.sessionFound, validJson, currentPassword,
                    newPassword, random, dbFails)
  /\ apiRequest' = ApiAnswer(upLast'.response.status)

\* weatherApi.use('*', ...): 401 without a user, else next().
WeatherMiddleware ==
  /\ apiRequest.pc = "next"
  /\ apiRequest.route \in WeatherRoutes
  /\ apiRequest' = IF apiRequest.user = {} THEN ApiAnswer(401)
                   ELSE [apiRequest EXCEPT !.pc = "handler"]

\* weatherApi.get('/', ...): the health check.
WeatherHealth ==
  /\ apiRequest.pc = "handler"
  /\ apiRequest.route = "GET /api/weather/"
  /\ apiRequest' = ApiAnswer(200)

\* weatherApi.post('/locations', ...) up to its first Convex call.
WeatherPost(validJson, name, latitude, longitude, isCurrentLocation, geocode) ==
  /\ apiRequest.pc = "handler"
  /\ apiRequest.route = "POST /api/weather/locations"
  /\ PostLocations(apiRequest.user, validJson, name, latitude, longitude,
                   isCurrentLocation, geocode)
  /\ apiRequest' = [apiRequest EXCEPT !.pc = "post"]

\* The answer of POST /locations is sent.
WeatherPosted ==
  /\ apiRequest.pc = "post"
  /\ PostReturn
  /\ apiRequest' = ApiAnswer((CHOOSE r \in post.response : TRUE).status)

\* weatherApi.delete('/locations/:locationId', ...) up to the mutation.
WeatherDelete(locationId) ==
  /\ apiRequest.pc = "handler"
  /\ apiRequest.route = "DELETE /api/weather/locations/:locationId"
  /\ IF apiRequest.user = {}
       THEN /\ apiRequest' = ApiAnswer(401)
            /\ UNCHANGED convexVars
       ELSE /\ \E user \in apiRequest.user : removeLocation(locationId, user)
            /\ apiRequest' = [apiRequest EXCEPT !.pc = "removing"]

\* removeLocation settled: success, or the catch of convexError.
WeatherDeleted ==
  /\ apiRequest.pc = "removing"
  /\ apiRequest' = ApiAnswer(IF convexLast.ok THEN 200 ELSE 500)
  /\ convexLast' = NoCall
  /\ UNCHANGED << weatherLocations, weatherData, nextLocationId, nextDataId,
                  now >>

\* The response has been sent.
ApiReturn ==
  /\ apiRequest.pc = "done"
  /\ apiRequest' = NoApi
  /\ upLast' = NoCall
  /\ UNCHANGED account

ApiInit == apiRequest = NoApi

(***************************************************************************)
(* The specifications.                                                     *)
(***************************************************************************)

vars ==
  << credVars, convexVars, concurrentVars, updatePasswordVars, retryVars,
     signOutVars, deleteVars, serviceVars, postVars, authVars, cardVars,
     apiVars >>

Init ==
  /\ CredInit
  /\ ConvexInit
  /\ ConcurrentInit
  /\ UpdatePasswordInit
  /\ RetryInit
  /\ SignOutInit
  /\ DeleteInit
  /\ ServiceInit
  /\ PostInit
  /\ AuthInit
  /\ CardInit
  /\ ApiInit

\* What a step of one part of the program leaves alone.
OnlyCred ==
  UNCHANGED
    << convexVars, concurrentVars, updatePasswordVars, retryVars,
       signOutVars, deleteVars, serviceVars, postVars, authVars, cardVars,
       apiVars >>
OnlyConvex ==
  UNCHANGED
    << credVars, concurrentVars, updatePasswordVars, retryVars,
       signOutVars, deleteVars, serviceVars, postVars, authVars, cardVars,
       apiVars >>
OnlyConcurrent ==
  UNCHANGED
    << credVars, convexVars, updatePasswordVars, retryVars, signOutVars,
       deleteVars, serviceVars, postVars, authVars, cardVars, apiVars >>
OnlyUpdatePassword ==
  UNCHANGED
    << credVars, convexVars, concurrentVars, retryVars, signOutVars,
       deleteVars, serviceVars, postVars, authVars, cardVars, apiVars >>
OnlyRetry ==
  UNCHANGED
    << credVars, convexVars, concurrentVars, updatePasswordVars,
       signOutVars, deleteVars, serviceVars, postVars, authVars, cardVars,
       apiVars >>
OnlySignOut ==
  UNCHANGED
    << credVars, convexVars, concurrentVars, updatePasswordVars, retryVars,
       deleteVars, serviceVars, postVars, authVars, cardVars, apiVars >>
OnlyDelete ==
  UNCHANGED
    << credVars, convexVars, concurrentVars, updatePasswordVars, retryVars,
       signOutVars, serviceVars, postVars, authVars, cardVars, apiVars >>
OnlyService ==
  UNCHANGED
    << credVars, convexVars, concurrentVars, updatePasswordVars, retryVars,
       signOutVars, deleteVars, postVars, authVars, cardVars, apiVars >>
OnlyPost ==
  UNCHANGED
    << credVars, convexVars, concurrentVars, updatePasswordVars, retryVars,
       signOutVars, deleteVars, serviceVars, authVars, cardVars, apiVars >>
OnlyAuth ==
  UNCHANGED
    << credVars, convexVars, concurrentVars, updatePasswordVars, retryVars,
       signOutVars, deleteVars, serviceVars, postVars, cardVars, apiVars >>
OnlyCard ==
  UNCHANGED
    << credVars, convexVars, concurrentVars, updatePasswordVars, retryVars,
       signOutVars, deleteVars, serviceVars, postVars, authVars, apiVars >>
OnlyApi ==
  UNCHANGED
    << credVars, convexVars, concurrentVars, updatePasswordVars, retryVars,
       signOutVars, deleteVars, serviceVars, postVars, authVars, cardVars >>

\* The credential module, one call at a time.
Next ==
  \/ \E rev \in Revisions, p \in Passwords : Hash(rev, p) /\ OnlyCred
  \/ \E rev \in Revisions, c \in BagToSet(hashLog), k \in TamperKinds,
        p \in Passwords :
       Verify(rev, c, k, p) /\ OnlyCred
  \/ Return /\ OnlyCred

Spec == Init /\ [][Next]_vars

\* The Convex functions.
NextConvex ==
  \/ \E u \in Users : getUserLocations(u) /\ OnlyConvex
  \/ \E id \in LocationIds, u \in Users :
       getLocationById(id, u) /\ OnlyConvex
  \/ \E u \in Users, id \in LocationIds :
       getWeatherForLocation(u, id) /\ OnlyConvex
  \/ \E u \in Users : getUserWeatherDashboard(u) /\ OnlyConvex
  \/ \E u \in Users, n \in LocationNames, c \in Coordinates,
        cur \in OptionalBooleans :
       addLocation(u, n, c.latitude, c.longitude, cur) /\ OnlyConvex
  \/ \E id \in LocationIds, u \in Users :
       removeLocation(id, u) /\ OnlyConvex
  \/ \E u \in Users, id \in LocationIds, r \in Readings :
       updateWeatherData(u, id, r) /\ OnlyConvex
  \/ \E u \in Users, h \in OptionalHours :
       cleanupStaleData(u, h) /\ OnlyConvex
  \/ Tick /\ OnlyConvex
  \/ ConvexReturn /\ OnlyConvex

SpecConvex == Init /\ [][NextConvex]_vars

\* The names given to addLocation where a change of name is to be seen.
UpsertNames == { << "A" >>, << " ", "B", " " >>, << " " >> }

\* Adding and removing locations.  A Convex mutation is a transaction:
\* concurrent calls take effect one after the other.
NextUpsert ==
  \/ \E u \in Users, n \in UpsertNames, c \in Coordinates,
        cur \in OptionalBooleans :
       addLocation(u, n, c.latitude, c.longitude, cur) /\ OnlyConvex
  \/ \E id \in LocationIds, u \in Users :
       removeLocation(id, u) /\ OnlyConvex
  \/ ConvexReturn /\ OnlyConvex

SpecUpsert == Init /\ [][NextUpsert]_vars

\* The readings given to updateWeatherData where an overwrite is to be seen.
RefreshReadings == { "clear", "rain" }

\* Refreshing the readings of locations.  A Convex mutation is a
\* transaction: concurrent refreshes take effect one after the other.
NextRefresh ==
  \/ \E u \in Users, c \in Coordinates :
       addLocation(u, << "A" >>, c.latitude, c.longitude, {}) /\ OnlyConvex
  \/ \E id \in LocationIds, u \in Users :
       removeLocation(id, u) /\ OnlyConvex
  \/ \E u \in Users, id \in LocationIds, r \in RefreshReadings :
       updateWeatherData(u, id, r) /\ OnlyConvex
  \/ Tick /\ OnlyConvex
  \/ ConvexReturn /\ OnlyConvex

SpecRefresh == Init /\ [][NextRefresh]_vars

\* The credentials given to the concurrent verifyPassword invocations.
ConcurrentCreds ==
  { c \in AllCreds : c.password = << "h", "i" >> /\ c.salt[1] = 0 }

\* The credential module, its invocations interleaved at their awaits.
NextConcurrent ==
  \/ \E rev \in ConcurrentRevisions, p \in Passwords :
       HashStart(rev, p) /\ OnlyConcurrent
  \/ \E i \in 1..Len(invocations) : HashImported(i) /\ OnlyConcurrent
  \/ \E i \in 1..Len(invocations) : HashDerived(i) /\ OnlyConcurrent
  \/ \E rev \in ConcurrentRevisions, c \in ConcurrentCreds,
        k \in ConcurrentKinds, p \in Passwords :
       VerifyStart(rev, c, k, p) /\ OnlyConcurrent
  \/ \E i \in 1..Len(invocations) : VerifyImported(i) /\ OnlyConcurrent
  \/ \E i \in 1..Len(invocations) : VerifyDerived(i) /\ OnlyConcurrent

SpecConcurrent == Init /\ [][NextConcurrent]_vars

\* PUT /api/update-password, one request at a time.
NextUpdatePassword ==
  \/ \E sessionFound \in BOOLEAN, validJson \in BOOLEAN,
        cur \in OptionalPasswords, new \in OptionalPasswords,
        random \in RandomOutcomes, dbFails \in BOOLEAN :
       UpdatePassword(sessionFound, validJson, cur, new, random, dbFails)
         /\ OnlyUpdatePassword
  \/ UpdatePasswordReturn /\ OnlyUpdatePassword

SpecUpdatePassword == Init /\ [][NextUpdatePassword]_vars

\* The retries of the dashboard query.
NextRetry ==
  \/ RetryDelay /\ OnlyRetry
  \/ NextAttempt /\ OnlyRetry

SpecRetry == Init /\ [][NextRetry]_vars

\* Signing in and out on the client.
NextSignOut ==
  \/ (\E user \in Users : handleSuccess(user)) /\ OnlySignOut
  \/ SessionRefetch /\ OnlySignOut
  \/ (\E to \in Routes : Navigate(to)) /\ OnlySignOut
  \/ SignOutMutate /\ OnlySignOut
  \/ (\E outcome \in SignOutOutcomes : SignOutSettled(outcome)) /\ OnlySignOut

SpecSignOut == Init /\ [][NextSignOut]_vars

\* Deleting locations on the dashboard.
NextDelete ==
  \/ (\E id \in DashboardLocations : DeleteMutate(id)) /\ OnlyDelete
  \/ (\E i \in 1..Len(deletes) : DeleteSnapshot(i)) /\ OnlyDelete
  \/ (\E i \in 1..Len(deletes) : DeleteSucceeded(i)) /\ OnlyDelete
  \/ (\E i \in 1..Len(deletes) : DeleteFailed(i)) /\ OnlyDelete
  \/ RefetchStart /\ OnlyDelete
  \/ RefetchDone /\ OnlyDelete

SpecDelete == Init /\ [][NextDelete]_vars

\* The calls of makeRequest on one WeatherService.
NextService ==
  \/ (\E url \in Urls : makeRequest(url)) /\ OnlyService
  \/ (\E i \in 1..Len(requests), status \in Statuses :
        FetchSettled(i, status)) /\ OnlyService
  \/ (\E i \in 1..Len(requests) : JsonResolved(i)) /\ OnlyService
  \/ (\E i \in 1..Len(requests) : JsonRejected(i)) /\ OnlyService
  \/ (\E i \in 1..Len(requests) : BackoffElapsed(i)) /\ OnlyService
  \/ ServiceTick /\ OnlyService

SpecService == Init /\ [][NextService]_vars

\* A step of a call that is waiting: its fetch or response.json() settles,
\* or its backoff timer fires.
ServiceSettles ==
  /\ \E i \in 1..Len(requests) :
       \/ \E status \in Statuses : FetchSettled(i, status)
       \/ JsonResolved(i)
       \/ JsonRejected(i)
       \/ BackoffElapsed(i)
  /\ OnlyService

\* The same calls where every promise settles and every timer fires.
SpecServiceFair == SpecService /\ WF_vars(ServiceSettles)

\* What a step of POST /locations that calls Convex leaves alone.
OnlyPostAndConvex ==
  UNCHANGED
    << credVars, concurrentVars, updatePasswordVars, retryVars, signOutVars,
       deleteVars, serviceVars, authVars, cardVars, apiVars >>

\* The requests to POST /locations, one at a time.
NextPost ==
  \/ (\E user \in PostUsers, validJson \in BOOLEAN, name \in PostNames,
         latitude \in Latitudes, longitude \in Longitudes,
         isCurrentLocation \in PostFlags, geocode \in GeocodeOutcomes :
        PostLocations(user, validJson, name, latitude, longitude,
                      isCurrentLocation, geocode)) /\ OnlyPost
  \/ PostAddLocation /\ OnlyPostAndConvex
  \/ PostAdded /\ OnlyPostAndConvex
  \/ (\E weather \in WeatherOutcomes : PostWeather(weather))
       /\ OnlyPostAndConvex
  \/ PostUpdated /\ OnlyPostAndConvex
  \/ PostReturn /\ OnlyPost

SpecPost == Init /\ [][NextPost]_vars

\* The calls of getAuth in one isolate, which runs one revision of auth.ts.
NextAuth ==
  \/ (\E env \in Envs : getAuth("isEnvValid", env)) /\ OnlyAuth
  \/ (\E env \in Envs : getAuth("shouldCache", env)) /\ OnlyAuth

SpecAuth == Init /\ [][NextAuth]_vars

\* One WeatherCard.
NextCard ==
  \/ checkAndRefresh /\ OnlyCard
  \/ handleRefresh /\ OnlyCard
  \/ (\E k \in { "auto", "manual" }, ok \in BOOLEAN, reading \in BOOLEAN :
        RefreshSettled(k, ok, reading)) /\ OnlyCard
  \/ CardTick /\ OnlyCard

SpecCard == Init /\ [][NextCard]_vars

\* What a request through the app leaves alone, whatever its route.
OnlyApiRoutes ==
  UNCHANGED
    << credVars, concurrentVars, retryVars, signOutVars, deleteVars,
       serviceVars, authVars, cardVars >>

\* The coordinates and names sent to POST /locations in the requests below.
ApiLatitudes == { JsonNumber(45) }
ApiLongitudes == { JsonNumber(0), JsonNumber(90) }
ApiNames == { { << "A" >> } }

\* Requests to update-password and to the weather routes, one at a time,
\* with and without a session.
NextApi ==
  \/ (\E route \in ApiRoutes, sessionFound \in BOOLEAN :
        SessionMiddleware(route, sessionFound))
       /\ UNCHANGED << updatePasswordVars, postVars, convexVars >>
       /\ OnlyApiRoutes
  \/ (\E validJson \in BOOLEAN, cur \in OptionalPasswords,
         new \in OptionalPasswords, random \in RandomOutcomes,
         dbFails \in BOOLEAN :
        ApiUpdatePassword(validJson, cur, new, random, dbFails))
       /\ UNCHANGED << postVars, convexVars >> /\ OnlyApiRoutes
  \/ WeatherMiddleware
       /\ UNCHANGED << updatePasswordVars, postVars, convexVars >>
       /\ OnlyApiRoutes
  \/ WeatherHealth
       /\ UNCHANGED << updatePasswordVars, postVars, convexVars >>
       /\ OnlyApiRoutes
  \/ (\E validJson \in BOOLEAN, name \in ApiNames, latitude \in ApiLatitudes,
         longitude \in ApiLongitudes, isCurrentLocation \in PostFlags :
        WeatherPost(validJson, name, latitude, longitude, isCurrentLocation,
                    {}))
       /\ UNCHANGED << updatePasswordVars, convexVars >> /\ OnlyApiRoutes
  \/ PostAddLocation /\ OnlyPostAndConvex
  \/ PostAdded /\ OnlyPostAndConvex
  \/ (\E weather \in WeatherOutcomes : PostWeather(weather))
       /\ OnlyPostAndConvex
  \/ PostUpdated /\ OnlyPostAndConvex
  \/ WeatherPosted
       /\ UNCHANGED << updatePasswordVars, convexVars >> /\ OnlyApiRoutes
  \/ (\E locationId \in LocationIds : WeatherDelete(locationId))
       /\ UNCHANGED << updatePasswordVars, postVars >> /\ OnlyApiRoutes
  \/ WeatherDeleted
       /\ UNCHANGED << updatePasswordVars, postVars >> /\ OnlyApiRoutes
  \/ ApiReturn /\ UNCHANGED << postVars, convexVars >> /\ OnlyApiRoutes

SpecApi == Init /\ [][NextApi]_vars

(***************************************************************************)
(* The claims.                                                             *)
(***************************************************************************)

IsVerify == last.op = "verify"

\* The stored string is the one hashPassword of the verifying revision
\* returned, unchanged.
OwnCredential ==
  IsVerify /\ last.tamper = "none" /\ last.rev = last.cred.rev

\* C1: a credential returned by hashPassword verifies against the password
\* it was made from: verifyPassword of the same revision resolves to true,
\* whatever salt was drawn.
C1_HashThenVerify ==
  (OwnCredential /\ last.candidate = last.cred.password)
    => (last.out.ret /\ ~last.out.threw)

C1_Witness ==
  /\ OwnCredential
  /\ last.candidate = last.cred.password
  /\ last.cred.salt[1] = 0
  /\ last.out.ret

\* C2: verifyPassword resolves to false for a credential of its revision
\* and any password other than the one the credential was made from.
C2_OtherPasswordRejected ==
  (OwnCredential /\ last.candidate # last.cred.password)
    => (~last.out.ret /\ ~last.out.threw)

C2_Witness ==
  /\ OwnCredential
  /\ last.candidate # last.cred.password
  /\ last.out.exit = "compare"
  /\ ~last.out.ret

\* The revisions of src/auth.ts: PBKDF2 and the format salt:key, with 100
\* and with 1000 iterations.
AuthTsRevisions == {"pbkdf2_100", "pbkdf2_1000"}

\* C3: a credential hashed by src/auth.ts under one iteration count still
\* verifies against its password after src/auth.ts is deployed with another
\* iteration count.
C3_OldCredentialStillVerifies ==
  ( /\ IsVerify
    /\ last.tamper = "none"
    /\ last.cred.rev \in AuthTsRevisions
    /\ last.rev \in AuthTsRevisions
    /\ last.candidate = last.cred.password )
    => last.out.ret

\* The strings hashPassword of revision rev can return for password p.
HashOutputs(rev, p) ==
  { c.stored : c \in { d \in AllCreds : d.rev = rev /\ d.password = p } }

\* C4: verifyPassword resolves to true only for a stored string that
\* hashPassword of its revision could have returned for the candidate.
C4_OnlyHashOutputsVerify ==
  (IsVerify /\ last.out.ret)
    => last.stored \in HashOutputs(last.rev, last.candidate)

\* C5: the promise verifyPassword returns never rejects: for every stored
\* string and every candidate it resolves to a boolean.
C5_VerifyNeverRejects ==
  IsVerify => (~last.out.threw /\ last.out.ret \in BOOLEAN)

\* An exception was raised inside verifyPassword and caught.
C5_Witness == IsVerify /\ last.out.exit = "catch" /\ ~last.out.ret

\* C6: every string hashPassword returns has exactly 4 delimited fields.
C6_FourFields ==
  \A c \in BagToSet(hashLog) :
    Len(Split(c.stored, Delimiter(c.rev))) = 4

\* C7 as written: no two invocations of hashPassword with the same
\* password return the same string.
C7_NoTwoHashesEqual ==
  \A c \in BagToSet(hashLog) : CopiesIn(c, hashLog) = 1

\* C7 as amended: two invocations of hashPassword of one revision with the
\* same password return different strings whenever the random source gave
\* them different salts.
C7_DifferentSaltsDifferentStrings ==
  \A c1, c2 \in BagToSet(hashLog) :
    ( /\ c1.rev = c2.rev
      /\ c1.password = c2.password
      /\ c1.salt # c2.salt )
      => c1.stored # c2.stored

C7_Witness ==
  \E c1, c2 \in BagToSet(hashLog) :
    /\ c1.rev = "pbkdf2_100"
    /\ c2.rev = "pbkdf2_100"
    /\ c1.password = c2.password
    /\ c1.salt # c2.salt
    /\ c1.stored # c2.stored

\* The algorithm of a revision.
Algorithm(rev) == IF rev = "scrypt" THEN "scrypt" ELSE "PBKDF2"

\* A credential that a revision of the other algorithm returned is given
\* to verifyPassword as it was returned.
OtherAlgorithmCredential ==
  /\ IsVerify
  /\ last.tamper = "none"
  /\ Algorithm(last.cred.rev) # Algorithm(last.rev)

DerivedKeyLength(rev) ==
  CASE rev \in AuthTsRevisions -> 256 \div 8
    [] rev = "pbkdf2_tagged" -> PBKDF2_HASH_LENGTH
    [] rev = "scrypt" -> 64

\* C9: whenever verifyPassword compares a stored key with the derived key
\* (they have equal length), the comparison visits every byte position:
\* the number of steps is the key length, for a match and for a mismatch
\* at any position.
C9_ComparisonVisitsEveryByte ==
  (IsVerify /\ last.out.exit = "compare")
    => last.out.steps = DerivedKeyLength(last.rev)

\* The loop of src/auth.ts compares keys that differ in their first byte.
C9_Witness ==
  /\ IsVerify
  /\ last.rev \in AuthTsRevisions
  /\ last.rev = last.cred.rev
  /\ last.tamper = "keyFirst"
  /\ last.out.exit = "compare"
  /\ ~last.out.ret
  /\ last.out.steps = 32

\* The functions C10 names.
C10_Functions ==
  {"getLocationById", "getWeatherForLocation", "removeLocation",
   "updateWeatherData", "cleanupStaleData"}

\* C10: a call of getLocationById, getWeatherForLocation, removeLocation,
\* updateWeatherData or cleanupStaleData that succeeds has returned, changed
\* or deleted only documents owned by the caller.
C10_OwnerOnly ==
  (convexLast.op \in C10_Functions /\ convexLast.ok)
    => convexLast.owners \subseteq {convexLast.caller}

\* C11: in every interleaving of hashPassword and verifyPassword
\* invocations, an invocation that has returned has returned what it
\* returns when run alone on the same arguments and the same draw of the
\* random source.
C11_InterleavedAsAlone ==
  \A i \in 1..Len(invocations) :
    LET inv == invocations[i]
    IN  inv.pc = "done" =>
          IF inv.op = "hash"
            THEN inv.local.result.str = inv.cred.stored
            ELSE inv.local.result.ret =
                   VerifyResult[inv.rev, inv.cred, inv.tamper,
                                inv.password].out.ret

\* Two hashPassword invocations for one password overlap: the second has
\* drawn a different salt and returned while the first awaits deriveBits.
C11_Witness ==
  /\ Len(invocations) = 2
  /\ invocations[1].op = "hash"
  /\ invocations[1].pc = "deriveBits"
  /\ invocations[2].op = "hash"
  /\ invocations[2].pc = "done"
  /\ invocations[2].password = invocations[1].password
  /\ invocations[2].cred.salt # invocations[1].cred.salt

\* The request of upLast got as far as calling hashPassword: it had a
\* session, a JSON body with both passwords, and the current password
\* verified.
ReachedHash ==
  /\ upLast.op = "update-password"
  /\ upLast.sessionFound
  /\ upLast.validJson
  /\ ~(upLast.currentPassword \subseteq { << >> })
  /\ ~(upLast.newPassword \subseteq { << >> })
  /\ \E p \in upLast.currentPassword :
       VerifyResult[DeployedRevision, upLast.before, "none", p].out.ret

\* C12: when the random source is unavailable to hashPassword, the
\* update-password request that called it is answered 500, no stored
\* string was made and the stored credential is the one from before.
C12_RandomFailureIsFatal ==
  (ReachedHash /\ upLast.random = Unavailable)
    => /\ upLast.response.status = 500
       /\ upLast.hashed = {}
       /\ account = upLast.before

C12_Witness ==
  /\ ReachedHash
  /\ upLast.random = Unavailable
  /\ ~upLast.dbFails
  /\ upLast.response.status = 500
  /\ account = upLast.before

\* The salt field of a string hashPassword of revision rev returned.
SaltField(rev, stored) ==
  LET f == Split(stored, Delimiter(rev)) IN f[Len(f) - 1]

\* For every credential hashPassword can return: its salt field, the bytes
\* the field stands for, and the salts hashPassword and verifyPassword of
\* its revision derive with; a table, each entry computed once.
SaltCalls ==
  [c \in AllCreds |->
     [field |-> SaltField(c.rev, c.stored),
      bytes |-> BufferFromHex(SaltField(c.rev, c.stored)),
      hashInput |-> HashSaltInput(c.rev, c.salt),
      verifyInput |-> VerifySaltInput(c.rev, c.stored)]]

SaltResult == IF SaltCalls = SaltCalls THEN SaltCalls ELSE << >>

\* C13: in every credential hashPassword returned, the salt field is the
\* 32 hex characters of the 16 bytes the random source returned, and
\* verifyPassword derives with the salt hashPassword derived with.
C13_SaltSixteenBytes ==
  /\ \A c \in BagToSet(hashLog) :
       /\ Len(c.salt) = 16
       /\ Len(SaltResult[c].field) = 32
       /\ SaltResult[c].bytes = c.salt
  /\ OwnCredential =>
       SaltResult[last.cred].verifyInput = SaltResult[last.cred].hashInput

\* A credential with a salt byte below 16 (one hex digit unpadded) has
\* been returned and verified by its revision.
C13_Witness ==
  /\ OwnCredential
  /\ last.cred \in BagToSet(hashLog)
  /\ last.cred.salt[2] = 1
  /\ Len(SaltResult[last.cred].field) = 32
  /\ last.out.ret

\* C14: for every attempt index n the delay is min(1000 * 2^n, 30000):
\* 1000 * 2^n up to n = 4 and 30000 from n = 5 on (1000, 2000, 4000 for
\* 0, 1, 2 and 30000 for 10); it never exceeds 30000 and no smaller index
\* has a larger delay.
C14_RetryDelayBackoff ==
  \A d \in delay :
    /\ d = IF attemptIndex <= 4 THEN 1000 * Pow2(attemptIndex) ELSE 30000
    /\ d <= 30000
    /\ \A m \in 0..attemptIndex : retryDelay(m) <= d
    /\ attemptIndex = 0 => d = 1000
    /\ attemptIndex = 1 => d = 2000
    /\ attemptIndex = 2 => d = 4000
    /\ attemptIndex = 10 => d = 30000

\* The delay for attempt index 10 has been computed and is the cap.
C14_Witness == attemptIndex = 10 /\ delay = {30000}

\* C15: the sign-out calls the auth client first; the ['session'] entry is
\* set to null only upon success and the redirect comes only after that;
\* when the sign-out call fails the ['session'] entry is unchanged and no
\* navigation happens.
C15_SignOutOrdering ==
  /\ effects # << >> => Head(effects) = "signOut"
  /\ \A i \in DOMAIN effects :
        /\ effects[i] = "setQueryData" => signOutLast.outcome = "data"
        /\ effects[i] = "navigate" => i > 1 /\ effects[i - 1] = "setQueryData"
  /\ signOutLast.outcome \in { "error", "rejected" } =>
        /\ signOutLast.cacheAfter = signOutLast.cacheBefore
        /\ signOutLast.locationAfter = signOutLast.locationBefore
        /\ \A i \in DOMAIN effects : effects[i] # "navigate"

\* C16: after any sequence of addLocation calls a user has at most one
\* weatherLocations record per (latitude, longitude); a successful call
\* leaves the user with exactly one record at the coordinates, carrying the
\* trimmed name and the isCurrentLocation given, and returns its id; when
\* the user already had a record there, that record's id is returned, no
\* record is inserted and no other record changes.
C16_UpsertStep ==
  /\ \A l1, l2 \in weatherLocations' :
        (/\ l1.userId = l2.userId
         /\ l1.latitude = l2.latitude
         /\ l1.longitude = l2.longitude) => l1 = l2
  /\ \A u \in Users, n \in UpsertNames, c \in Coordinates,
        cur \in OptionalBooleans :
       (/\ convexLast'.op = "addLocation" /\ convexLast'.ok
        /\ Trim(n) # << >>
        /\ c.latitude \in -90..90 /\ c.longitude \in -180..180
        /\ addLocation(u, n, c.latitude, c.longitude, cur)) =>
         LET At(docs) ==
               { l \in docs :
                   /\ l.userId = u
                   /\ l.latitude = c.latitude
                   /\ l.longitude = c.longitude }
             before == At(weatherLocations)
             after == At(weatherLocations')
         IN  /\ Cardinality(after) = 1
             /\ \A l \in after :
                   /\ l.name = Trim(n)
                   /\ l.isCurrentLocation = (cur = {TRUE})
                   /\ convexLast'.result = l._id
             /\ before # {} =>
                   /\ \A l \in before : convexLast'.result = l._id
                   /\ nextLocationId' = nextLocationId
                   /\ { l._id : l \in weatherLocations' } =
                        { l._id : l \in weatherLocations }
                   /\ weatherLocations' \ after = weatherLocations \ before

C16_Upsert == [][C16_UpsertStep]_vars

\* A second record has been inserted and addLocation has then returned the
\* id of the first one, whose name it changed.
C16_Witness ==
  /\ convexLast.op = "addLocation" /\ convexLast.ok
  /\ nextLocationId = 2 /\ convexLast.result = 1
  /\ \E l \in weatherLocations : l._id = 1 /\ l.name = << "A" >>
  /\ Cardinality(weatherLocations) = 2

\* C17: when a delete-location mutation fails, the cache entry under
\* ['weather'] is restored to the contents it had before that mutation's
\* optimistic removal, the location reappears and no other location is
\* lost, whatever other delete mutations are in flight.
C17_RollbackLosesNothing ==
  deleteLast.op = "onError" =>
    /\ deleteLast.cacheAfter = deleteLast.previousData
    /\ deleteLast.locationId \in deleteLast.cacheAfter
    /\ deleteLast.cacheBefore \subseteq deleteLast.cacheAfter

\* C18: on one WeatherService, two makeRequest calls for the same url made
\* within the cache window cause at most one fetch between them, however
\* the two calls interleave; and a url has a cache entry only when a call
\* for it got a successful response.
C18_AtMostOneFetch ==
  /\ \A i, j \in 1..Len(requests) :
       (/\ i < j
        /\ requests[i].url = requests[j].url
        /\ requests[j].started - requests[i].started < CACHE_DURATION) =>
         requests[i].fetches + requests[j].fetches <= 1
  /\ \A url \in Urls :
       requestCache[url] # {} =>
         \E i \in 1..Len(requests) :
           /\ requests[i].url = url
           /\ requests[i].pc = "returned" /\ ~requests[i].cached

\* C19: a request of a signed-in user with a name answers 400 and saves
\* nothing when it carries a latitude outside [-90, 90] or a longitude
\* outside [-180, 180]; when it carries numeric coordinates inside the
\* ranges, 0 included, the location is saved at exactly those coordinates
\* and the name is not geocoded.
C19_CoordinateRange ==
  LET Outside(v, low, high) ==
        v.type = "number" /\ (v.value < low \/ v.value > high)
      Inside(v, low, high) ==
        v.type = "number" /\ v.value >= low /\ v.value <= high
  IN  (/\ post.pc # "idle"
       /\ post.user # {}
       /\ post.name \notin { {}, { << >> } }
       /\ post.response \notin { { PostResponse(500, "Internal server error") } })
      =>
        /\ (Outside(post.latitude, -90, 90)
              \/ Outside(post.longitude, -180, 180)) =>
             /\ post.pc = "done"
             /\ \A r \in post.response : r.status = 400
             /\ post.locationData = {}
        /\ (Inside(post.latitude, -90, 90)
              /\ Inside(post.longitude, -180, 180)) =>
             /\ ~post.geocoded
             /\ \A data \in post.locationData :
                  /\ data.latitude = post.latitude.value
                  /\ data.longitude = post.longitude.value
             /\ post.locationData # {}

\* The environment is valid: it has a D1 binding with prepare and, in the
\* revision that tests isEnvValid, a SESSIONS binding.
ValidEnv(env) ==
  /\ env.DB = "d1"
  /\ authRevision = "isEnvValid" => env.SESSIONS = "kv"

C21_ChangesOnlyOnSuccess ==
  upLast.op = "update-password" =>
    IF upLast.response.status = 200
      THEN /\ upLast.sessionFound /\ upLast.validJson
           /\ upLast.currentPassword \in { { p } : p \in Passwords }
           /\ upLast.newPassword \in { { p } : p \in Passwords }
           /\ \A p \in upLast.currentPassword :
                VerifyResult[DeployedRevision, upLast.before, "none", p].out.ret
           /\ upLast.hashed = { account.stored }
           /\ account.rev = DeployedRevision
           /\ account.password \in upLast.newPassword
           /\ account.salt = upLast.random
           /\ VerifyResult[DeployedRevision, account, "none",
                           account.password].out.ret
    ELSE /\ upLast.response.status \in { 400, 401, 500 }
         /\ account = upLast.before

\* The password has been changed: the stored credential is another one
\* than before the request.
C21_Witness ==
  /\ upLast.op = "update-password"
  /\ upLast.response.status = 200
  /\ account # upLast.before
  /\ account.password # upLast.before.password

\* Every call of makeRequest made so far has ended: it returned or threw.
RequestsEnded ==
  \A i \in 1..Len(requests) : requests[i].pc \in { "returned", "threw" }

\* No call fetches more than `retries` times; a call that returned fetched
\* data returned them on its last fetch, within `retries` attempts; a call
\* that threw has used up its attempts.
C22_AttemptsBounded ==
  \A i \in 1..Len(requests) :
    LET r == requests[i]
    IN  /\ r.fetches <= Retries /\ r.attempt <= Retries
        /\ (r.pc = "returned" /\ ~r.cached) =>
              r.fetches \in 1..Retries /\ r.attempt = r.fetches
        /\ (r.pc = "returned" /\ r.cached) => r.fetches = 0
        /\ r.pc = "threw" => r.fetches = Retries

\* C22: every call of makeRequest ends after at most `retries` fetches: it
\* returns the data of its first successful attempt or, with every attempt
\* failed (network error, 429 or another status), it throws.  A call that
\* has ended stays ended, so that all calls made so far have ended again
\* and again exactly when each call ends.
C22_Terminates == []C22_AttemptsBounded /\ []<>RequestsEnded

\* A call has thrown after a network error, a 429 and a 500, and another
\* has returned data on its third fetch.
C22_Witness ==
  \E i, j \in 1..Len(requests) :
    /\ requests[i].pc = "threw" /\ requests[i].fetches = Retries
    /\ requests[j].pc = "returned" /\ requests[j].fetches = Retries

C24_OneCurrentLocation ==
  \A u \in Users :
    Cardinality({ l \in weatherLocations :
                    l.userId = u /\ l.isCurrentLocation }) <= 1

\* C25: every weatherData record's locationId is the _id of a
\* weatherLocations record: removeLocation deletes the readings of the
\* location with it, and updateWeatherData writes a reading only for a
\* location that exists.
C25_ReadingsHaveLocation ==
  /\ \A d \in weatherData :
       \E l \in weatherLocations : l._id = d.locationId
  /\ (convexLast.op = "updateWeatherData" /\ convexLast.ok) =>
       \E d \in weatherData :
         /\ d._id = convexLast.result
         /\ \E l \in weatherLocations : l._id = d.locationId

\* The only location, which had the only reading, has been removed, and
\* the reading with it.
C25_Witness ==
  /\ convexLast.op = "removeLocation" /\ convexLast.ok
  /\ now = 0 /\ nextLocationId = 1 /\ nextDataId = 1
  /\ weatherLocations = {} /\ weatherData = {}

\* C26: each location has at most one weatherData record.  A successful
\* updateWeatherData leaves the location with exactly one record, which
\* carries the new reading and lastUpdated of this instant and whose id is
\* returned; when the location had a record, that record is the one
\* overwritten and nothing is inserted.
C26_RefreshStep ==
  /\ \A d1, d2 \in weatherData' :
        d1.locationId = d2.locationId => d1 = d2
  /\ \A u \in Users, id \in LocationIds, r \in RefreshReadings :
       (/\ convexLast'.op = "updateWeatherData" /\ convexLast'.ok
        /\ DbGet(weatherLocations, id) # {}
        /\ updateWeatherData(u, id, r)) =>
         LET before == { d \in weatherData : d.locationId = id }
             after == { d \in weatherData' : d.locationId = id }
         IN  /\ Cardinality(after) = 1
             /\ \A d \in after :
                   /\ d.reading = r
                   /\ d.lastUpdated = now
                   /\ convexLast'.result = d._id
             /\ before # {} =>
                   /\ { d._id : d \in after } = { d._id : d \in before }
                   /\ nextDataId' = nextDataId
             /\ weatherData' \ after = weatherData \ before

C26_OneReadingPerLocation == [][C26_RefreshStep]_vars

\* The reading of a location has been overwritten at a later instant with
\* another reading.
C26_Witness ==
  /\ convexLast.op = "updateWeatherData" /\ convexLast.ok
  /\ nextDataId = 1 /\ now > 0
  /\ \E d \in weatherData :
       d._id = 1 /\ d.reading = "rain" /\ d.lastUpdated = now

\* C27: a request whose session lookup found no session has user and
\* session both null when the route handler runs; on update-password and
\* on every weather route it is answered 401, and no step of it changes
\* the stored credential, calls a Convex mutation or changes a Convex
\* table.
C27_UnauthenticatedStep ==
  (apiRequest'.pc # "idle" /\ ~apiRequest'.sessionFound) =>
    /\ apiRequest'.user = {} /\ apiRequest'.session = {}
    /\ apiRequest'.pc \in { "next", "done" }
    /\ apiRequest'.pc = "done" => apiRequest'.response = { 401 }
    /\ account' = account
    /\ UNCHANGED convexVars
    /\ post' = NoPost

C27_UnauthenticatedChangesNothing == [][C27_UnauthenticatedStep]_vars

\* A DELETE of a stored location without a session has been answered 401.
C27_Witness ==
  /\ apiRequest.pc = "done" /\ ~apiRequest.sessionFound
  /\ apiRequest.route = "DELETE /api/weather/locations/:locationId"
  /\ apiRequest.response = { 401 }
  /\ weatherLocations # {}

====
